---- MODULE Spec2Model ----
(***************************************************************************)
(* Model of daemon3.py: one poll-loop process (IOLinkMaster.getreadings)   *)
(* per configured IO-Link master.  Each process owns its own topology      *)
(* (sensorlist), the saved topology of the preceding cycle                 *)
(* (savesensorlist) and its full/partial schedule (fullinfo, itercount).   *)
(*                                                                         *)
(* Representation of Python values:                                        *)
(*   None            -> the empty tuple <<>>  (None);  a value v that may  *)
(*                      be None is held as <<v>>  (Some(v))                *)
(*   list entries    -> records; the test "entry is None" compares with    *)
(*                      the record NoneEntry                               *)
(*   ids (416, 310)  -> the decimal strings "416", "310"; '' is ""         *)
(*   hex string      -> sequence of characters, a hex digit being its      *)
(*                      value 0..15 and any other character being 16       *)
(*   measurements    -> integers in hundredths (12.0 is 1200)              *)
(***************************************************************************)
EXTENDS Integers, Sequences, FiniteSets, TLC

\* ------------------------------------------------------------------ bounds
MaxPorts == 2
NumDevices == 2

\* ------------------------------------------------------- program constants
DefaultIterations == 6
DefaultDuration == 10
MinDuration == 5
MaxDuration == 600
MinIterations == 5
MaxIterations == 20
SENSOR_IN_OPERATE == 2

Devices == 1..NumDevices

None == <<>>
Some(v) == <<v>>
Get(o) == o[1]

Min(a, b) == IF a < b THEN a ELSE b

VARIABLES
    config,         \* the device list and the device properties main reads
    mainpc,         \* position of the main process
    devicelist,     \* devices whose process was started            (main)
    env,            \* what the masters can answer (fixed at start)
    prr,            \* the properties: threshold table              (read-only)
    iterations,     \* self.iterations of each device
    duration,       \* self.duration of each device: the sleep of a cycle
    pc,             \* position of each device's getreadings
    numports,       \* iolminfo.numports
    iolminfo,       \* the other fields of iolminfo: the master's identity and health
    fullinfo,
    itercount,
    sensorlist,
    savesensorlist,
    aliased,        \* savesensorlist is the same list object as sensorlist
    events,         \* sendtosaas calls of the current cycle, in order
    saas,           \* exit status of get-eventstamp in each of these calls
    written,        \* points written to InfluxDB in the current cycle
    cyclekind,      \* branch the current cycle took: "FULL" / "PARTIAL"
    partialrun,     \* PARTIAL cycles since the last FULL cycle
    loopcount,      \* what getportcount returned for the last port loop
    lastget,        \* the last HTTP GET that did not deliver a value
    asked,          \* per port of the last poll: the status answered, the queries made after it
    raised          \* exception that ended the process, and where

vars == <<config, mainpc, devicelist, env, prr, iterations, duration, pc, numports, iolminfo, fullinfo, itercount,
          sensorlist, savesensorlist, aliased, events, saas, written, cyclekind,
          partialrun, loopcount, lastget, asked, raised>>

\* ------------------------------------------------------------ HTTP to master
\* What requests.get can do: raise one of the named exceptions, or deliver a
\* response whose .ok is TRUE or FALSE.
OkResponse == [error |-> "", ok |-> TRUE]
NotOkResponse == [error |-> "", ok |-> FALSE]
FailedResponses ==
    { [error |-> e, ok |-> FALSE] : e \in {"ConnectTimeout", "ConnectionError", "ReadTimeout"} }
      \cup {NotOkResponse}

\* httpget: the two caught exceptions leave myresponse None and the function
\* raises ConnectionError; any other exception of requests.get propagates;
\* an ok response returns the value; the not-ok branch evaluates
\* myresponse.status_code() (an int called as a function) and so raises
\* TypeError before the "return None" is reached.
httpget(resp, v) ==
    IF resp.error \in {"ConnectTimeout", "ConnectionError"}
    THEN [exc |-> "ConnectionError", value |-> None]
    ELSE IF resp.error # ""
    THEN [exc |-> resp.error, value |-> None]
    ELSE IF resp.ok
    THEN [exc |-> "", value |-> Some(v)]
    ELSE [exc |-> "TypeError", value |-> None]

\* getportcount: None when gettree returned None, else the number of ports
\* found in the tree (n; 0 when the tree has no iolinkmaster node).
getportcount(resp, n) ==
    LET capabilities == httpget(resp, n)
    IN  IF capabilities.exc # "" THEN capabilities
        ELSE IF capabilities.value # None
        THEN [exc |-> "", value |-> Some(n)]
        ELSE [exc |-> "", value |-> None]

NoGet == [resp |-> OkResponse, exc |-> "", isnone |-> FALSE, at |-> ""]
NotRaised == [exc |-> "", at |-> ""]

\* ------------------------------------------------------------- the master
\* What a master answers, by the last part of the path queried.  Health
\* values are whole numbers: temperature in degrees, current in mA, voltage
\* in V.
DefaultMaster ==
    [ipaddress |-> "192.168.1.10", serialnumber |-> "M1", vendor |-> "ifm",
     devicefamily |-> "IO-Link master", productcode |-> "AL1350",
     temperature |-> 40, supervisionstatus |-> 0, current |-> 150, voltage |-> 24]

\* The masters the environment offers; without a word on it, DefaultMaster.
Masters == IF "masters" \in DOMAIN env THEN env.masters ELSE {DefaultMaster}

\* The getters of the full branch, each by the path it queries (lines
\* 469-523, 632-688).
getipaddress(m) == m.ipaddress
getproductserial(m) == m.serialnumber
getvendor(m) == m.vendor
getdevicefamily(m) == m.devicefamily
getproductcode(m) == m.productcode
gettemperature(m) == m.temperature
getsupervisionstatus(m) == m.supervisionstatus
getmilliamperes(m) == m.current
\* getvolts queries /processdatamaster/current/getdata (line 688).
getvolts(m) == m.current

\* A new IOLinkMasterInformation (lines 137-146); the ip address of the
\* empty argument is held as the empty string.
IOLinkMasterInformation ==
    [ipaddress |-> "", productserial |-> "", vendor |-> "", family |-> "",
     productcode |-> "", temperature |-> 0 - 273, supervisionstatus |-> 0 - 1,
     milliamperes |-> 0 - 1, voltage |-> 0 - 1]

\* iolminfo after the assignments of lines 202-213.
ReadMaster(m) ==
    [ipaddress |-> getipaddress(m), productserial |-> getproductserial(m),
     vendor |-> getvendor(m), family |-> getdevicefamily(m),
     productcode |-> getproductcode(m), temperature |-> gettemperature(m),
     supervisionstatus |-> getsupervisionstatus(m),
     milliamperes |-> getmilliamperes(m), voltage |-> getvolts(m)]

\* The iolmEvents point of lines 216-224.
MasterPoint(info, ports) ==
    [measurement |-> "iolmEvents", ports |-> ports,
     tags |-> [iolmip |-> info.ipaddress, serial |-> info.productserial,
               vendor |-> info.vendor, family |-> info.family,
               productcode |-> info.productcode],
     fields |-> [volts |-> info.voltage, milliamperes |-> info.milliamperes,
                 temperature |-> info.temperature, status |-> info.supervisionstatus]]

\* A full poll that writes the point of the master twice.
MasterPointsTwice(info, ports) == <<MasterPoint(info, ports), MasterPoint(info, ports)>>
\* What a full poll hands to write_points: the one point of the master.
MasterPoints(info, ports) == <<MasterPoint(info, ports)>>

\* ------------------------------------------------------------------ sensors
NoneEntry == [none |-> TRUE]
JsonInit == Some([measurement |-> ""])

IOLinkSensorInformation(prt, typ, nm, ser, vid, lnm, pd) ==
    [sensorport |-> prt, sensortype |-> typ, sensorname |-> nm,
     sensorserial |-> ser, sensorvendorid |-> vid, sensorlocalname |-> lnm,
     sensorprocessdata |-> pd, json |-> JsonInit]

\* ------------------------------------------------------------- datatojson
\* A slice that takes the end index with it.
SliceInclusive(s, a, b) == SubSeq(s, a + 1, Min(b + 1, Len(s)))

\* Python slice s[a:b] of a string (0-based, clipped to the string).
Slice(s, a, b) == SubSeq(s, a + 1, Min(b, Len(s)))

\* The largest number held: ten times it is the largest temperature in
\* hundredths that the checker's integers hold.
MaxDecoded == 2147483647 \div 10

\* The number that the hex digits of s write; a number above MaxDecoded is
\* held as MaxDecoded.
RECURSIVE HexValue(_)
HexValue(s) ==
    IF s = <<>> THEN 0
    ELSE LET high == HexValue(SubSeq(s, 1, Len(s) - 1))
         IN  IF high > (MaxDecoded - s[Len(s)]) \div 16 THEN MaxDecoded
             ELSE 16 * high + s[Len(s)]

\* The nibbles of the number that two's complement pairs with s.
Complement(s) == [i \in 1..Len(s) |-> 15 - s[i]]

\* A conversion that reads a string with its top bit set as the negative
\* number of two's complement.
IntBase16Signed(s) ==
    IF s = <<>> \/ \E i \in 1..Len(s) : s[i] \notin 0..15
    THEN [exc |-> "ValueError", value |-> 0]
    ELSE IF s[1] >= 8
    THEN [exc |-> "", value |-> 0 - HexValue(Complement(s)) - 1]
    ELSE [exc |-> "", value |-> HexValue(s)]

\* int(s, 16): ValueError for '' and for a character that is no hex digit.
IntBase16(s) ==
    IF s = <<>> \/ \E i \in 1..Len(s) : s[i] \notin 0..15
    THEN [exc |-> "ValueError", value |-> 0]
    ELSE [exc |-> "", value |-> HexValue(s)]

\* A registry that takes type 400 for a vibration sensor too.
VibrationTypesWith400 == {"416", "417", "400"}

VibrationTypes == {"416", "417"}
TemperatureTypes == {"446"}

\* A decoder that scales the temperature like the vibration values, by 100.0.
datatojsonHundredths(sensor) ==
    IF sensor.sensorvendorid = "310"
    THEN IF sensor.sensortype \in VibrationTypes
         THEN IF sensor.sensorprocessdata = None
              THEN [exc |-> "TypeError", json |-> None]
              ELSE LET pd == Get(sensor.sensorprocessdata)
                       configuration == IntBase16(Slice(pd, 10, 11))
                       diagnosis == IntBase16(Slice(pd, 8, 10))
                       velocity == IntBase16(Slice(pd, 4, 8))
                       acceleration == IntBase16(Slice(pd, 0, 4))
                   IN  IF configuration.exc # "" THEN [exc |-> configuration.exc, json |-> None]
                       ELSE IF diagnosis.exc # "" THEN [exc |-> diagnosis.exc, json |-> None]
                       ELSE IF velocity.exc # "" THEN [exc |-> velocity.exc, json |-> None]
                       ELSE IF acceleration.exc # "" THEN [exc |-> acceleration.exc, json |-> None]
                       ELSE [exc |-> "",
                             json |-> Some([measurement |-> "vibrationEvents",
                                            fields |-> [configuration |-> configuration.value,
                                                        diagnosis |-> diagnosis.value,
                                                        velocity |-> velocity.value,
                                                        acceleration |-> acceleration.value]])]
         ELSE IF sensor.sensortype \in TemperatureTypes
         THEN IF sensor.sensorprocessdata = None
              THEN [exc |-> "TypeError", json |-> None]
              ELSE LET temperature == IntBase16(Get(sensor.sensorprocessdata))
                   IN  IF temperature.exc # "" THEN [exc |-> temperature.exc, json |-> None]
                       ELSE [exc |-> "",
                             json |-> Some([measurement |-> "temperatureEvents",
                                            fields |-> [temperature |-> temperature.value]])]
         ELSE [exc |-> "", json |-> None]
    ELSE [exc |-> "", json |-> None]


\* The result of datatojson: exc names the exception it raises, json is the
\* value it returns (None for every type it does not convert).  A vendor id
\* other than 310 falls off the end of the function, which returns None too.
\* x / 100.0 is held in hundredths, so velocity and acceleration are the
\* parsed integers themselves and temperature (x / 10.0) is 10 * x.
datatojson(sensor) ==
    IF sensor.sensorvendorid = "310"
    THEN IF sensor.sensortype \in VibrationTypes
         THEN IF sensor.sensorprocessdata = None
              THEN [exc |-> "TypeError", json |-> None]
              ELSE LET pd == Get(sensor.sensorprocessdata)
                       configuration == IntBase16(Slice(pd, 10, 11))
                       diagnosis == IntBase16(Slice(pd, 8, 10))
                       velocity == IntBase16(Slice(pd, 4, 8))
                       acceleration == IntBase16(Slice(pd, 0, 4))
                   IN  IF configuration.exc # "" THEN [exc |-> configuration.exc, json |-> None]
                       ELSE IF diagnosis.exc # "" THEN [exc |-> diagnosis.exc, json |-> None]
                       ELSE IF velocity.exc # "" THEN [exc |-> velocity.exc, json |-> None]
                       ELSE IF acceleration.exc # "" THEN [exc |-> acceleration.exc, json |-> None]
                       ELSE [exc |-> "",
                             json |-> Some([measurement |-> "vibrationEvents",
                                            fields |-> [configuration |-> configuration.value,
                                                        diagnosis |-> diagnosis.value,
                                                        velocity |-> velocity.value,
                                                        acceleration |-> acceleration.value]])]
         ELSE IF sensor.sensortype \in TemperatureTypes
         THEN IF sensor.sensorprocessdata = None
              THEN [exc |-> "TypeError", json |-> None]
              ELSE LET temperature == IntBase16(Get(sensor.sensorprocessdata))
                   IN  IF temperature.exc # "" THEN [exc |-> temperature.exc, json |-> None]
                       ELSE [exc |-> "",
                             json |-> Some([measurement |-> "temperatureEvents",
                                            fields |-> [temperature |-> 10 * temperature.value]])]
         ELSE [exc |-> "", json |-> None]
    ELSE [exc |-> "", json |-> None]

\* The "for sensor in sensorlist" loop of getreadings that sets sensor.json and
\* writes the points: the list with json set on the first k sensors, the points
\* written, and the exception that stopped it.
RECURSIVE DecodeLoop(_, _)
DecodeLoop(list, k) ==
    IF k = 0 THEN [exc |-> "", list |-> list, points |-> <<>>]
    ELSE LET before == DecodeLoop(list, k - 1)
         IN  IF before.exc # "" THEN before
             ELSE LET r == datatojson(list[k])
                  IN  IF r.exc # "" THEN [before EXCEPT !.exc = r.exc]
                      ELSE [exc |-> "",
                            list |-> [before.list EXCEPT ![k].json = r.json],
                            points |-> IF r.json # None
                                       THEN Append(before.points,
                                                   [measurement |-> Get(r.json).measurement,
                                                    sensorport |-> list[k].sensorport,
                                                    fields |-> Get(r.json).fields])
                                       ELSE before.points]

\* ------------------------------------------------- the port loop: differ
ConfigurationEvent(name, saved) ==
    [evt |-> "CONFIGURATION", event |-> name, port |-> saved.sensorport,
     type |-> saved.sensortype, serial |-> saved.sensorserial]

\* The SENSORNOTFOUND message names no port number (it holds the literal text
\* "savesensorlist[portnumber]"); pn is kept only to tell the calls apart.
NotFoundEvent(pn, saved) ==
    [evt |-> "CONFIGURATION", event |-> "SENSORNOTFOUND", port |-> pn + 1,
     type |-> saved.sensortype, serial |-> saved.sensorserial]

\* A test that holds for every port with a sensor, changed or not.
SensorPresent(old, new) == new.sensortype # ""

\* The tests of lines 285 and 293 on the saved and the current entry.
TypeDiffers(old, new) == old.sensortype # new.sensortype

\* a comparison of the two sensor objects instead of their serials
EntriesDiffer(old, new) == old # new

SerialDiffers(old, new) == old.sensorserial # new.sensorserial

\* Lines 267-300 for list index pn (0-based) when savesensorlist is a list:
\* the sendtosaas calls made and the exception raised.
DifferSaved(saved, cur, pn) ==
    IF pn >= Len(cur) THEN [exc |-> "IndexError", events |-> <<>>]
    ELSE IF cur[pn + 1] = NoneEntry
    THEN IF pn >= Len(saved) THEN [exc |-> "IndexError", events |-> <<>>]
         ELSE IF saved[pn + 1] # NoneEntry
         THEN [exc |-> "", events |-> <<NotFoundEvent(pn, saved[pn + 1])>>]
         ELSE [exc |-> "", events |-> <<>>]
    ELSE IF pn >= Len(saved) THEN [exc |-> "IndexError", events |-> <<>>]
    ELSE IF saved[pn + 1] = NoneEntry
    THEN [exc |-> "AttributeError", events |-> <<>>]
    ELSE IF TypeDiffers(saved[pn + 1], cur[pn + 1])
    THEN [exc |-> "", events |-> <<ConfigurationEvent("SENSORTYPECHANGED", saved[pn + 1])>>]
    ELSE IF SerialDiffers(saved[pn + 1], cur[pn + 1])
    THEN [exc |-> "", events |-> <<ConfigurationEvent("SENSORSERIALCHANGED", saved[pn + 1])>>]
    ELSE [exc |-> "", events |-> <<>>]

\* A differ that takes a missing previous topology for one without sensors.
DifferFromEmpty(save, cur, pn) ==
    IF save = None
    THEN DifferSaved([k \in 1..Len(cur) |->
                        IOLinkSensorInformation(k, "", "", "", "", "", None)], cur, pn)
    ELSE DifferSaved(Get(save), cur, pn)

\* Lines 266-300: nothing is compared while savesensorlist is None.
Differ(save, cur, pn) ==
    IF save = None THEN [exc |-> "", events |-> <<>>]
    ELSE DifferSaved(Get(save), cur, pn)

\* ------------------------------------- the port loop: threshold evaluation
DefaultMaxThreshold == 9999999
DefaultMinTemperature == 0 - 27300

SensorEvent(name, sensor, value, threshold) ==
    [evt |-> "SENSOR", event |-> name, port |-> sensor.sensorport,
     value |-> value, threshold |-> threshold]

\* the property key vendorid@sensorserial@thresholdtype
Key(sensor, metric) == <<sensor.sensorvendorid, sensor.sensorserial, metric>>

\* An evaluator that tests the two temperature bounds one after the other,
\* an "if" in the place of the "elif" of line 398.
ThresholdsBothBounds(cur, pn, tbl) ==
    IF pn >= Len(cur) THEN [exc |-> "IndexError", brk |-> FALSE, events |-> <<>>]
    ELSE LET sensor == cur[pn + 1]
             skip == [exc |-> "", brk |-> FALSE, events |-> <<>>]
             break == [exc |-> "", brk |-> TRUE, events |-> <<>>]
         IN  IF sensor.json = None THEN skip
             ELSE IF "fields" \notin DOMAIN Get(sensor.json) THEN break
             ELSE LET jsondict == Get(sensor.json).fields IN
             IF sensor.sensorvendorid # "310" THEN skip
             ELSE IF sensor.sensortype \in VibrationTypes
             THEN IF Key(sensor, "acceleration") \notin DOMAIN tbl THEN break
                  ELSE IF Key(sensor, "velocity") \notin DOMAIN tbl THEN break
                  ELSE IF {"acceleration", "velocity"} \ DOMAIN jsondict # {} THEN break
                  ELSE LET accelthreshold == tbl[Key(sensor, "acceleration")]
                           velthreshold == tbl[Key(sensor, "velocity")]
                           acctocheck == jsondict.acceleration
                           veltocheck == jsondict.velocity
                       IN  [exc |-> "", brk |-> FALSE,
                            events |->
                              (IF acctocheck > accelthreshold
                               THEN <<SensorEvent("ACCELERATION", sensor, acctocheck, accelthreshold)>>
                               ELSE <<>>)
                              \o
                              (IF veltocheck > velthreshold
                               THEN <<SensorEvent("VELOCITY", sensor, veltocheck, velthreshold)>>
                               ELSE <<>>)]
             ELSE IF sensor.sensortype \in TemperatureTypes
             THEN LET tmaxthreshold == IF Key(sensor, "temperaturemax") \in DOMAIN tbl
                                       THEN tbl[Key(sensor, "temperaturemax")]
                                       ELSE DefaultMaxThreshold
                      tminthreshold == IF Key(sensor, "temperaturemin") \in DOMAIN tbl
                                       THEN tbl[Key(sensor, "temperaturemin")]
                                       ELSE DefaultMinTemperature
                  IN  IF "temperature" \notin DOMAIN jsondict THEN break
                      ELSE LET temptocheck == jsondict.temperature
                           IN  [exc |-> "", brk |-> FALSE,
                                events |->
                                  (IF temptocheck < tminthreshold
                                   THEN <<SensorEvent("TEMPERATUREMIN", sensor,
                                                      temptocheck, tminthreshold)>>
                                   ELSE <<>>)
                                  \o
                                  (IF temptocheck > tmaxthreshold
                                   THEN <<SensorEvent("TEMPERATUREMAX", sensor,
                                                      temptocheck, tmaxthreshold)>>
                                   ELSE <<>>)]
             ELSE skip


\* Lines 304-408 for list index pn: brk says that a "break" left the port loop.
Thresholds(cur, pn, tbl) ==
    IF pn >= Len(cur) THEN [exc |-> "IndexError", brk |-> FALSE, events |-> <<>>]
    ELSE LET sensor == cur[pn + 1]
             skip == [exc |-> "", brk |-> FALSE, events |-> <<>>]
             break == [exc |-> "", brk |-> TRUE, events |-> <<>>]
         IN  IF sensor.json = None THEN skip
             ELSE IF "fields" \notin DOMAIN Get(sensor.json) THEN break
             ELSE LET jsondict == Get(sensor.json).fields IN
             IF sensor.sensorvendorid # "310" THEN skip
             ELSE IF sensor.sensortype \in VibrationTypes
             THEN IF Key(sensor, "acceleration") \notin DOMAIN tbl THEN break
                  ELSE IF Key(sensor, "velocity") \notin DOMAIN tbl THEN break
                  ELSE IF {"acceleration", "velocity"} \ DOMAIN jsondict # {} THEN break
                  ELSE LET accelthreshold == tbl[Key(sensor, "acceleration")]
                           velthreshold == tbl[Key(sensor, "velocity")]
                           acctocheck == jsondict.acceleration
                           veltocheck == jsondict.velocity
                       IN  [exc |-> "", brk |-> FALSE,
                            events |->
                              (IF acctocheck > accelthreshold
                               THEN <<SensorEvent("ACCELERATION", sensor, acctocheck, accelthreshold)>>
                               ELSE <<>>)
                              \o
                              (IF veltocheck > velthreshold
                               THEN <<SensorEvent("VELOCITY", sensor, veltocheck, velthreshold)>>
                               ELSE <<>>)]
             ELSE IF sensor.sensortype \in TemperatureTypes
             THEN LET tmaxthreshold == IF Key(sensor, "temperaturemax") \in DOMAIN tbl
                                       THEN tbl[Key(sensor, "temperaturemax")]
                                       ELSE DefaultMaxThreshold
                      tminthreshold == IF Key(sensor, "temperaturemin") \in DOMAIN tbl
                                       THEN tbl[Key(sensor, "temperaturemin")]
                                       ELSE DefaultMinTemperature
                  IN  IF "temperature" \notin DOMAIN jsondict THEN break
                      ELSE LET temptocheck == jsondict.temperature
                           IN  IF temptocheck < tminthreshold
                               THEN [exc |-> "", brk |-> FALSE,
                                     events |-> <<SensorEvent("TEMPERATUREMIN", sensor,
                                                              temptocheck, tminthreshold)>>]
                               ELSE IF temptocheck > tmaxthreshold
                               THEN [exc |-> "", brk |-> FALSE,
                                     events |-> <<SensorEvent("TEMPERATUREMAX", sensor,
                                                              temptocheck, tmaxthreshold)>>]
                               ELSE skip
             ELSE skip

\* for portnumber in range(pn, stop): differ, then thresholds, for each index,
\* until the range ends, a break leaves the loop or an exception is raised.
RECURSIVE PortLoop(_, _, _, _, _)
PortLoop(pn, stop, save, cur, tbl) ==
    IF pn >= stop THEN [exc |-> "", events |-> <<>>]
    ELSE LET d == Differ(save, cur, pn)
         IN  IF d.exc # "" THEN [exc |-> d.exc, events |-> d.events]
             ELSE LET t == Thresholds(cur, pn, tbl)
                  IN  IF t.exc # "" \/ t.brk
                      THEN [exc |-> t.exc, events |-> d.events \o t.events]
                      ELSE LET rest == PortLoop(pn + 1, stop, save, cur, tbl)
                           IN  [exc |-> rest.exc,
                                events |-> d.events \o t.events \o rest.events]

\* ------------------------------------------------------ getsensorsondevices
\* list.insert(idx, x) for idx >= 0
ListInsert(list, idx, x) ==
    LET k == Min(idx, Len(list))
    IN  SubSeq(list, 1, k) \o <<x>> \o SubSeq(list, k + 1, Len(list))

\* What one port answers to the status query and, when it is asked, to the
\* identity and process-data queries.
NoDevice == [deviceid |-> "", vendorid |-> "", serial |-> "", tag |-> "",
             productname |-> "", pdin |-> <<>>]

\* The devices on ports whose status is not 2: what the identity and
\* process-data queries would answer there.  Without a word of the
\* environment on it there is nothing on such a port.
Attached(e) == IF "attached" \in DOMAIN e THEN e.attached ELSE {NoDevice}

PortAnswers(e) ==
    { [status |-> st, dev |-> x] : st \in e.statuses \ {SENSOR_IN_OPERATE}, x \in Attached(e) }
      \cup { [status |-> SENSOR_IN_OPERATE, dev |-> x] : x \in e.plant }

\* The queries getsensorsondevices makes for a port after the status query
\* (lines 430-435), and those of the partial branch (line 248).
FullQueries(answer) ==
    [status |-> answer.status,
     queries |-> IF answer.status = SENSOR_IN_OPERATE
                 THEN {"deviceid", "applicationspecifictag", "serial", "vendorid",
                       "productname", "pdin"}
                 ELSE {}]
PartialQueries(answer) ==
    [status |-> answer.status,
     queries |-> IF answer.status = SENSOR_IN_OPERATE THEN {"pdin"} ELSE {}]

\* An entry that takes every port with a device on it for a sensor.
PortEntryConnected(portnumber, answer) ==
    IF answer.status # 0
    THEN IOLinkSensorInformation(portnumber, answer.dev.deviceid, answer.dev.tag,
                                 answer.dev.serial, answer.dev.vendorid,
                                 answer.dev.productname, Some(answer.dev.pdin))
    ELSE IOLinkSensorInformation(portnumber, "", "", "", "", "", None)

\* The entry built for one port (lines 427-442).  The arguments are passed in
\* the order of the call: device id, application tag, serial, vendor id,
\* product name, process data.
PortEntry(portnumber, answer) ==
    IF answer.status = SENSOR_IN_OPERATE
    THEN IOLinkSensorInformation(portnumber, answer.dev.deviceid, answer.dev.tag,
                                 answer.dev.serial, answer.dev.vendorid,
                                 answer.dev.productname, Some(answer.dev.pdin))
    ELSE IOLinkSensorInformation(portnumber, "", "", "", "", "", None)

\* portefeuille after the ports 1..n have been handled
RECURSIVE getsensorsondevices(_, _)
getsensorsondevices(n, answers) ==
    IF n <= 0 THEN <<>>
    ELSE ListInsert(getsensorsondevices(n - 1, answers), n, PortEntry(n, answers[n]))

\* A refresh that reads each port's identity again, as a full poll does.
PartialRefreshIdentity(list, answers) ==
    [k \in 1..Len(list) |-> PortEntry(list[k].sensorport, answers[k])]

\* Lines 246-250: the process data of every sensor of the list is replaced.
PartialRefresh(list, answers) ==
    [k \in 1..Len(list) |->
        [list[k] EXCEPT !.sensorprocessdata =
            IF answers[k].status = SENSOR_IN_OPERATE
            THEN Some(answers[k].dev.pdin) ELSE None]]

\* -------------------------------------------------------------- the process
\* An assignment that reaches the objects of every process.
SetShared(f, d, v) == [e \in DOMAIN f |-> v]
\* An assignment to an attribute of the process's own IOLinkMaster object.
Set(f, d, v) == [f EXCEPT ![d] = v]

\* An exception after which the process is started again.
TerminateAndRestart(d, exc, at) ==
    /\ pc' = Set(pc, d, "start")
    /\ raised' = Set(raised, d, [exc |-> exc, at |-> at])

\* An uncaught exception ends getreadings, and with it the device's process.
Terminate(d, exc, at) ==
    /\ pc' = Set(pc, d, "crashed")
    /\ raised' = Set(raised, d, [exc |-> exc, at |-> at])

FailedGet(d, resp, g, at) ==
    lastget' = Set(lastget, d, [resp |-> resp, exc |-> g.exc,
                                isnone |-> (g.value = None), at |-> at])

\* A savesensorlist that holds a copy: a change of the current list does not
\* reach it.
SeenByCopy(d, list) == savesensorlist

\* savesensorlist when the list that sensorlist names has become `list` by
\* assignments to its sensors: after line 410 both names are the same list
\* object, so the change is seen through savesensorlist as well.
SeenBySaved(d, list) ==
    IF aliased[d] THEN Set(savesensorlist, d, Some(list)) ELSE savesensorlist

\* getreadings up to the loop (lines 181-197, 412-415).
Start(d) ==
    /\ pc[d] = "start"
    /\ \E db \in {"ok", "listfails", "switchfails"} :
         IF db = "listfails"
         THEN /\ Terminate(d, "ConnectionError", "connect")
              /\ UNCHANGED <<numports, lastget>>
         ELSE IF db = "switchfails"
         THEN /\ pc' = Set(pc, d, "NoConnection")
              /\ UNCHANGED <<numports, lastget, raised>>
         ELSE \E resp \in {OkResponse} \cup FailedResponses, n \in env.treeports :
                LET g == getportcount(resp, n)
                IN  /\ IF resp = OkResponse THEN UNCHANGED lastget
                       ELSE FailedGet(d, resp, g, "start")
                    /\ IF g.exc # ""
                       THEN /\ Terminate(d, g.exc, "start")
                            /\ UNCHANGED numports
                       ELSE /\ numports' = Set(numports, d, g.value)
                            /\ pc' = Set(pc, d, IF g.value # None THEN "top" ELSE "NoData")
                            /\ UNCHANGED raised
    /\ UNCHANGED <<config, mainpc, devicelist, env, prr, iterations, duration, asked, iolminfo, saas, fullinfo, itercount, sensorlist,
                   savesensorlist, aliased, events, written, cyclekind, partialrun,
                   loopcount>>

\* What client.write_points does: "ok", or the exception it raises.  The
\* environment tells which of them can happen; without a word on it every
\* write succeeds.
WriteOutcomes == IF "writes" \in DOMAIN env THEN env.writes ELSE {"ok"}

\* What leaves the try statement around a write (lines 227-234, 257-263).
\* Both handlers name InfluxDBClientError, so no other exception is caught;
\* and the handler formats excp.errno, an attribute this exception does not
\* have, so the handler itself raises AttributeError.
WriteRaises(w) ==
    IF w = "ok" THEN ""
    ELSE IF w = "InfluxDBClientError" THEN "AttributeError"
    ELSE w

\* One iteration with fullinfo set (lines 200-239): the master's fields, the
\* iolmEvents point, and a new list from getsensorsondevices.  A GET that
\* fails among those of the master ends the process before iolminfo is used.
FullPoll(d) ==
    /\ pc[d] = "top"
    /\ fullinfo[d]
    /\ itercount' = Set(itercount, d, itercount[d] + 1)
    /\ events' = Set(events, d, <<>>)
    /\ saas' = Set(saas, d, <<>>)
    /\ cyclekind' = Set(cyclekind, d, "FULL")
    /\ partialrun' = Set(partialrun, d, 0)
    /\ \E m \in Masters :
         \/ \E resp \in FailedResponses, at \in {"master", "sensors"} :
              /\ FailedGet(d, resp, httpget(resp, 0), at)
              /\ Terminate(d, httpget(resp, 0).exc, at)
              /\ iolminfo' = IF at = "master" THEN iolminfo
                             ELSE Set(iolminfo, d, ReadMaster(m))
              /\ written' = Set(written, d, IF at = "master" THEN <<>>
                                            ELSE MasterPoints(ReadMaster(m), numports[d]))
              /\ UNCHANGED <<fullinfo, sensorlist, aliased, asked>>
         \/ \E w \in WriteOutcomes \ {"ok"} :
              /\ Terminate(d, WriteRaises(w), "write")
              /\ iolminfo' = Set(iolminfo, d, ReadMaster(m))
              /\ written' = Set(written, d, <<>>)
              /\ UNCHANGED <<fullinfo, sensorlist, aliased, lastget, asked>>
         \/ \E n \in env.treeports :
              \E answers \in [1..n -> PortAnswers(env)] :
                /\ iolminfo' = Set(iolminfo, d, ReadMaster(m))
                /\ written' = Set(written, d, MasterPoints(ReadMaster(m), numports[d]))
                /\ sensorlist' = Set(sensorlist, d, getsensorsondevices(n, answers))
                /\ asked' = Set(asked, d, [k \in 1..n |-> FullQueries(answers[k])])
                /\ aliased' = Set(aliased, d, FALSE)
                /\ fullinfo' = Set(fullinfo, d, FALSE)
                /\ pc' = Set(pc, d, "decode")
                /\ UNCHANGED <<lastget, raised>>
    /\ UNCHANGED <<config, mainpc, devicelist, env, prr, iterations, duration, numports, savesensorlist, loopcount>>

ResetDueOneEarly(count, iters) == count >= iters

\* The reset test of the partial branch (lines 242-244)
ResetDue(count, iters) == count > iters

\* One iteration with fullinfo clear (lines 200, 240-250).  The sensors are
\* the objects of the list, so a list that savesensorlist also names changes
\* with it.
PartialPoll(d) ==
    /\ pc[d] = "top"
    /\ ~fullinfo[d]
    /\ LET count == itercount[d] + 1
       IN  IF ResetDue(count, iterations[d])
           THEN /\ itercount' = Set(itercount, d, 0)
                /\ fullinfo' = Set(fullinfo, d, TRUE)
           ELSE /\ itercount' = Set(itercount, d, count)
                /\ UNCHANGED fullinfo
    /\ events' = Set(events, d, <<>>)
    /\ saas' = Set(saas, d, <<>>)
    /\ written' = Set(written, d, <<>>)
    /\ cyclekind' = Set(cyclekind, d, "PARTIAL")
    /\ partialrun' = Set(partialrun, d, partialrun[d] + 1)
    /\ \/ /\ sensorlist[d] # <<>>
          /\ \E resp \in FailedResponses :
               /\ FailedGet(d, resp, httpget(resp, 0), "sensors")
               /\ Terminate(d, httpget(resp, 0).exc, "sensors")
               /\ UNCHANGED <<sensorlist, savesensorlist, asked>>
       \/ \E answers \in [1..Len(sensorlist[d]) -> PortAnswers(env)] :
            LET list == PartialRefresh(sensorlist[d], answers)
            IN  /\ sensorlist' = Set(sensorlist, d, list)
                /\ asked' = Set(asked, d, [k \in 1..Len(answers) |-> PartialQueries(answers[k])])
                /\ savesensorlist' = SeenBySaved(d, list)
                /\ pc' = Set(pc, d, "decode")
                /\ UNCHANGED <<lastget, raised>>
    /\ UNCHANGED <<config, mainpc, devicelist, env, prr, iterations, duration, iolminfo, numports, aliased, loopcount>>

\* Lines 252-263: sensor.json is set and the points are written.
Decode(d) ==
    /\ pc[d] = "decode"
    /\ \/ LET r == DecodeLoop(sensorlist[d], Len(sensorlist[d]))
          IN  /\ sensorlist' = Set(sensorlist, d, r.list)
              /\ savesensorlist' = SeenBySaved(d, r.list)
              /\ written' = Set(written, d, written[d] \o r.points)
              /\ IF r.exc # ""
                 THEN Terminate(d, r.exc, "decode")
                 ELSE /\ pc' = Set(pc, d, "diff")
                      /\ UNCHANGED raised
       \/ \E k \in 1..Len(sensorlist[d]), w \in WriteOutcomes \ {"ok"} :
            \* the write of the k-th sensor's point fails
            LET r == DecodeLoop(sensorlist[d], k)
            IN  /\ r.exc = ""
                /\ r.list[k].json # None
                /\ sensorlist' = Set(sensorlist, d, r.list)
                /\ savesensorlist' = SeenBySaved(d, r.list)
                /\ written' = Set(written, d,
                                  written[d] \o SubSeq(r.points, 1, Len(r.points) - 1))
                /\ Terminate(d, WriteRaises(w), "write")
    /\ UNCHANGED <<config, mainpc, devicelist, env, prr, iterations, duration, asked, iolminfo, saas, numports, fullinfo, itercount,
                   aliased, events, cyclekind, partialrun, loopcount, lastget>>

\* The exit statuses get-eventstamp can end with; without a word of the
\* environment on it every call ends with 0.
SaasStatuses == IF "saas" \in DOMAIN env THEN env.saas ELSE {0}

\* A sendtosaas that writes the result point whatever the exit status is.
sendtosaasUnchecked(evt, status_code) ==
    Some([measurement |-> "saasResults", event |-> evt])
\* sendtosaas (lines 1288-1331): a non-zero exit status is logged and
\* nothing else happens; otherwise the saasResults point is to be written.
sendtosaas(evt, status_code) ==
    IF status_code # 0 THEN None
    ELSE Some([measurement |-> "saasResults", event |-> evt])

\* The result points of the calls made for evs with the exit statuses sts.
ResultPoints(evs, sts) ==
    LET sent == SelectSeq([i \in 1..Len(evs) |-> i],
                          LAMBDA i : sendtosaas(evs[i], sts[i]) # None)
    IN  [j \in 1..Len(sent) |-> Get(sendtosaas(evs[sent[j]], sts[sent[j]]))]

\* Lines 265-408: the port loop over range(0, getportcount() - 1).
CheckPorts(d) ==
    /\ pc[d] = "diff"
    /\ \/ \E resp \in FailedResponses :
            /\ FailedGet(d, resp, getportcount(resp, 0), "diff")
            /\ Terminate(d, getportcount(resp, 0).exc, "diff")
            /\ UNCHANGED <<events, saas, written, loopcount>>
       \/ \E n \in env.treeports :
            LET r == PortLoop(0, n - 1, savesensorlist[d], sensorlist[d], prr)
            IN  /\ loopcount' = Set(loopcount, d, n)
                /\ UNCHANGED lastget
                /\ \E sts \in [1..Len(r.events) -> SaasStatuses] :
                     \/ /\ events' = Set(events, d, events[d] \o r.events)
                        /\ saas' = Set(saas, d, saas[d] \o sts)
                        /\ written' = Set(written, d,
                                          written[d] \o ResultPoints(r.events, sts))
                        /\ IF r.exc # ""
                           THEN Terminate(d, r.exc, "diff")
                           ELSE /\ pc' = Set(pc, d, "sleep")
                                /\ UNCHANGED raised
                     \/ \E k \in 1..Len(r.events), w \in WriteOutcomes \ {"ok"} :
                          \* the write of the k-th event's result point fails
                          /\ sendtosaas(r.events[k], sts[k]) # None
                          /\ events' = Set(events, d, events[d] \o SubSeq(r.events, 1, k))
                          /\ saas' = Set(saas, d, saas[d] \o SubSeq(sts, 1, k))
                          /\ written' = Set(written, d,
                                 written[d] \o ResultPoints(SubSeq(r.events, 1, k - 1),
                                                            SubSeq(sts, 1, k - 1)))
                          /\ Terminate(d, WriteRaises(w), "write")
    /\ UNCHANGED <<config, mainpc, devicelist, env, prr, iterations, duration, asked, iolminfo, numports, fullinfo, itercount,
                   sensorlist, savesensorlist, aliased, cyclekind, partialrun>>

\* Lines 410-411: savesensorlist names the list of this cycle; then the sleep.
EndCycle(d) ==
    /\ pc[d] = "sleep"
    /\ savesensorlist' = Set(savesensorlist, d, Some(sensorlist[d]))
    /\ aliased' = Set(aliased, d, TRUE)
    /\ pc' = Set(pc, d, "top")
    /\ UNCHANGED <<config, mainpc, devicelist, env, prr, iterations, duration, asked, iolminfo, saas, numports, fullinfo, itercount,
                   sensorlist, events, written, cyclekind, partialrun, loopcount,
                   lastget, raised>>

\* The positions of a poll loop that has not ended.
LoopPositions == {"start", "top", "decode", "diff", "sleep"}

\* The positions at which getreadings has ended: on an uncaught exception,
\* or returning because there is no database or no port count (lines
\* 181-187, 412-415).
EndPositions == {"crashed", "NoConnection", "NoData"}

\* The process of device d is given the processor and leaves the position
\* it is at.
Scheduled(d) ==
    /\ pc[d] \in LoopPositions
    /\ \E p \in LoopPositions \cup EndPositions : pc' = Set(pc, d, p)

\* A step of the process of device d.
Step(d) ==
    \/ Start(d)
    \/ FullPoll(d)
    \/ PartialPoll(d)
    \/ Decode(d)
    \/ CheckPorts(d)
    \/ EndCycle(d)

\* Every started process runs on its own; a step is a step of one of them.
DoStart == \E d \in devicelist : Start(d)

DoFullPoll == \E d \in devicelist : FullPoll(d)

DoPartialPoll == \E d \in devicelist : PartialPoll(d)

DoDecode == \E d \in devicelist : Decode(d)

DoCheckPorts == \E d \in devicelist : CheckPorts(d)

DoEndCycle == \E d \in devicelist : EndCycle(d)

Next ==
    \/ DoStart
    \/ DoFullPoll
    \/ DoPartialPoll
    \/ DoDecode
    \/ DoCheckPorts
    \/ DoEndCycle

\* -------------------------------------------------------- the main process
\* Property values are strings; a string is the sequence of its characters.
DigitChars == <<"0", "1", "2", "3", "4", "5", "6", "7", "8", "9">>

IsDigit(c) == \E i \in 1..10 : DigitChars[i] = c

DigitOf(c) == (CHOOSE i \in 1..10 : DigitChars[i] = c) - 1

\* int(trystring) succeeds on an optional sign followed by decimal digits
\* (lines 1275-1285; property values arrive stripped of white space).
Unsigned(s) == IF s # <<>> /\ s[1] \in {"-", "+"} THEN Tail(s) ELSE s

isanint(trystring) ==
    /\ Unsigned(trystring) # <<>>
    /\ \A i \in 1..Len(Unsigned(trystring)) : IsDigit(Unsigned(trystring)[i])

RECURSIVE DecimalValue(_)
DecimalValue(s) ==
    IF s = <<>> THEN 0
    ELSE 10 * DecimalValue(SubSeq(s, 1, Len(s) - 1)) + DigitOf(s[Len(s)])

int(s) == IF s[1] = "-" THEN 0 - DecimalValue(Tail(s)) ELSE DecimalValue(Unsigned(s))

\* str.partition(','): the text before the first separator, the separator,
\* and the text after it; without a separator the whole text and two empty
\* strings (line 851).
partition(s) ==
    IF \E i \in 1..Len(s) : s[i] = ","
    THEN LET k == CHOOSE i \in 1..Len(s) :
                     /\ s[i] = ","
                     /\ \A j \in 1..(i - 1) : s[j] # ","
         IN  <<SubSeq(s, 1, k - 1), <<",">>, SubSeq(s, k + 1, Len(s))>>
    ELSE <<s, <<>>, <<>>>>

Defaulted == [duration |-> DefaultDuration, iterations |-> DefaultIterations]

\* The delay property without the range check of the duration.
ParseDelayUnchecked(delay) ==
    LET delayparts == partition(delay)
    IN  IF ~isanint(delayparts[1]) THEN Defaulted
        ELSE [duration |-> int(delayparts[1]),
              iterations |->
                IF Len(delayparts[2]) < 1 \/ Len(delayparts[3]) < 1
                   \/ ~isanint(delayparts[3])
                THEN DefaultIterations
                ELSE int(delayparts[3])]
\* The delay property "duration,iterations" (lines 848-894).
ParseDelay(delay) ==
    LET delayparts == partition(delay)
    IN  IF ~isanint(delayparts[1]) THEN Defaulted
        ELSE IF int(delayparts[1]) < MinDuration \/ int(delayparts[1]) > MaxDuration
        THEN Defaulted
        ELSE [duration |-> int(delayparts[1]),
              iterations |->
                IF Len(delayparts[2]) < 1 THEN DefaultIterations
                ELSE IF Len(delayparts[3]) < 1 THEN DefaultIterations
                ELSE IF ~isanint(delayparts[3]) THEN DefaultIterations
                ELSE IF int(delayparts[3]) < MinIterations
                        \/ int(delayparts[3]) > MaxIterations
                THEN DefaultIterations
                ELSE int(delayparts[3])]

\* An address is four octets or a symbolic name; whether a name is known to
\* the resolver is the environment's answer.  The result is the address, or
\* None for the empty string (lines 1334-1370).
resolveipaddress(ip2check) ==
    IF ip2check.form = "octets"
    THEN IF \A i \in 1..4 : ip2check.parts[i] < 256 THEN Some(ip2check) ELSE None
    ELSE IF ip2check.known THEN Some(ip2check) ELSE None

\* A new IOLinkMaster with the properties named after the device applied
\* (lines 153-170, 829-848); None stands for the unset delay (-1) and for
\* the unset address ('').  The port defaults to 80 and is never -1.
DeviceFromProperties(device, props) ==
    LET parsed == IF props.delay = None THEN Defaulted
                  ELSE ParseDelay(Get(props.delay))
    IN  [devicename |-> device,
         ipaddress |-> IF props.ipaddress = None THEN None
                       ELSE resolveipaddress(Get(props.ipaddress)),
         delay |-> props.delay,
         duration |-> parsed.duration,
         iterations |-> parsed.iterations]

\* IOLinkMaster.check (lines 450-458).
check(dev) == ~(dev.delay = None \/ dev.ipaddress = None)

\* IOLinkMasterList.__init__: the first device whose check fails raises out
\* of the constructor (lines 829-906).
IOLinkMasterList(cfg) ==
    LET devs == [d \in cfg.devices |-> DeviceFromProperties(d, cfg.props[d])]
    IN  [exc |-> IF \E d \in cfg.devices : ~check(devs[d]) THEN "Exception" ELSE "",
         devices |-> devs]

\* __main__ (lines 1373-1404): no device listed exits; otherwise the device
\* list is built and one process per device is started, after which main
\* sleeps for ever.  An exception of the constructor ends main before any
\* process is started.
Main ==
    /\ mainpc = "start"
    /\ IF config.devices = {}
       THEN /\ mainpc' = "exit"
            /\ UNCHANGED <<devicelist, iterations, duration, pc>>
       ELSE LET iolmlistn == IOLinkMasterList(config)
            IN  IF iolmlistn.exc # ""
                THEN /\ mainpc' = "raised"
                     /\ UNCHANGED <<devicelist, iterations, duration, pc>>
                ELSE /\ mainpc' = "waiting"
                     /\ devicelist' = config.devices
                     /\ iterations' = [d \in Devices |->
                            IF d \in config.devices
                            THEN iolmlistn.devices[d].iterations ELSE iterations[d]]
                     /\ duration' = [d \in Devices |->
                            IF d \in config.devices
                            THEN iolmlistn.devices[d].duration ELSE duration[d]]
                     /\ pc' = [d \in Devices |->
                            IF d \in config.devices THEN "start" ELSE pc[d]]
    /\ UNCHANGED <<config, env, prr, saas, iolminfo, asked, numports, fullinfo, itercount, sensorlist,
                   savesensorlist, aliased, events, written, cyclekind,
                   partialrun, loopcount, lastget, raised>>

\* The program from its start: main, then the processes it has started.
NextMain ==
    \/ Main
    \/ DoStart
    \/ DoFullPoll
    \/ DoPartialPoll
    \/ DoDecode
    \/ DoCheckPorts
    \/ DoEndCycle

\* ------------------------------------------------------------ environments
\* 12 hex digits of a vibration sensor: acceleration 0x04B0, velocity 0x0064,
\* diagnosis 0x00, configuration nibble 1.
VibrationData == <<0, 4, 11, 0, 0, 0, 6, 4, 0, 0, 1, 0>>

SensorS1 == [deviceid |-> "416", vendorid |-> "310", serial |-> "S1", tag |-> "pump",
             productname |-> "JN2201", pdin |-> VibrationData]
SensorS1b == [SensorS1 EXCEPT !.deviceid = "417", !.productname = "JN2202"]
SensorS2 == [SensorS1 EXCEPT !.serial = "S2"]

\* A master with MaxPorts ports on which three vibration sensors can be
\* plugged and unplugged.
TopologyEnv == [treeports |-> {MaxPorts}, statuses |-> {0, SENSOR_IN_OPERATE},
                plant |-> {SensorS1, SensorS1b, SensorS2}]

\* A one-port master with one sensor.
ScheduleEnv == [treeports |-> {1}, statuses |-> {0, SENSOR_IN_OPERATE},
                plant |-> {SensorS1}]

NoThresholds == [k \in {} |-> 0]
VibrationThresholds ==
    [k \in {"310"} \X {"S1", "S2"} \X {"acceleration", "velocity"} |-> 1000]

\* The state of the poll loops before their first step (lines 137, 189-196).
InitLoops ==
    /\ pc = [d \in Devices |-> IF d \in devicelist THEN "start" ELSE "absent"]
    /\ duration = [d \in Devices |-> DefaultDuration]
    /\ numports = [d \in Devices |-> Some(0 - 1)]
    /\ iolminfo = [d \in Devices |-> IOLinkMasterInformation]
    /\ asked = [d \in Devices |-> <<>>]
    /\ fullinfo = [d \in Devices |-> TRUE]
    /\ itercount = [d \in Devices |-> 0]
    /\ sensorlist = [d \in Devices |-> <<>>]
    /\ savesensorlist = [d \in Devices |-> None]
    /\ aliased = [d \in Devices |-> FALSE]
    /\ events = [d \in Devices |-> <<>>]
    /\ saas = [d \in Devices |-> <<>>]
    /\ written = [d \in Devices |-> <<>>]
    /\ cyclekind = [d \in Devices |-> "none"]
    /\ partialrun = [d \in Devices |-> 0]
    /\ loopcount = [d \in Devices |-> 0]
    /\ lastget = [d \in Devices |-> NoGet]
    /\ raised = [d \in Devices |-> NotRaised]

\* The state of every process when main has started it: main has read the
\* configuration and waits in its endless loop (lines 1403-1404).
InitProcesses ==
    /\ config = None
    /\ mainpc = "waiting"
    /\ InitLoops

\* One device with the default iteration count; sensors come and go.
Init ==
    /\ devicelist = {1}
    /\ env = TopologyEnv
    /\ prr \in {NoThresholds, VibrationThresholds}
    /\ iterations = [d \in Devices |-> DefaultIterations]
    /\ InitProcesses

Spec == Init /\ [][Next]_vars

\* One device, every iteration count the configuration can set.
InitSchedule ==
    /\ devicelist = {1}
    /\ env = ScheduleEnv
    /\ prr = VibrationThresholds
    /\ iterations \in [Devices -> MinIterations..MaxIterations]
    /\ \A d \in Devices \ devicelist : iterations[d] = DefaultIterations
    /\ InitProcesses

SpecSchedule == InitSchedule /\ [][Next]_vars

\* A master with one port more, so that the port loop reaches two ports: the
\* sensor of one port may lack thresholds while another port changes.
WideEnv == [treeports |-> {MaxPorts + 1}, statuses |-> {0, SENSOR_IN_OPERATE},
            plant |-> {SensorS1, SensorS1b}]

InitWide ==
    /\ devicelist = {1}
    /\ env = WideEnv
    /\ prr \in {NoThresholds, VibrationThresholds}
    /\ iterations = [d \in Devices |-> DefaultIterations]
    /\ InitProcesses

SpecWide == InitWide /\ [][Next]_vars

\* A vibration sensor S1 whose acceleration and velocity are each 4.00 or
\* 6.00, on a master with MaxPorts ports, and the threshold tables that
\* configure 5.0 for none, one or both of its metrics.
VibrationPayload(acc, vel) == acc \o vel \o <<0, 0, 1, 0>>

AlertingVibrationSensors ==
    { [SensorS1 EXCEPT !.pdin = VibrationPayload(acc, vel)] :
        acc \in {<<0, 1, 9, 0>>, <<0, 2, 5, 8>>},
        vel \in {<<0, 1, 9, 0>>, <<0, 2, 5, 8>>} }

VibrationEnv == [treeports |-> {MaxPorts}, statuses |-> {SENSOR_IN_OPERATE},
                 plant |-> AlertingVibrationSensors]

AccelerationOnly == [k \in {<<"310", "S1", "acceleration">>} |-> 500]
VelocityOnly == [k \in {<<"310", "S1", "velocity">>} |-> 500]
BothThresholds == [k \in {"310"} \X {"S1"} \X {"acceleration", "velocity"} |-> 500]

InitVibration ==
    /\ devicelist = {1}
    /\ env = VibrationEnv
    /\ prr \in {NoThresholds, AccelerationOnly, VelocityOnly, BothThresholds}
    /\ iterations = [d \in Devices |-> DefaultIterations]
    /\ InitProcesses

SpecVibration == InitVibration /\ [][Next]_vars

\* A temperature sensor T1 that reports 30.0 ("0000012C"), 45.0, 60.0 or
\* 100000.1 ("000F4241") degrees, and the threshold tables: none, a minimum
\* of 40.0 with a maximum of 50.0, a minimum of 70.0 above the maximum of
\* 50.0, and a maximum alone.
SensorT1 == [deviceid |-> "446", vendorid |-> "310", serial |-> "T1", tag |-> "oven",
             productname |-> "TN2511", pdin |-> <<0, 0, 0, 0, 0, 1, 2, 12>>]

TemperatureSensors ==
    { [SensorT1 EXCEPT !.pdin = pd] :
        pd \in { <<0, 0, 0, 0, 0, 1, 2, 12>>, <<0, 0, 0, 0, 0, 1, 12, 2>>,
                 <<0, 0, 0, 0, 0, 2, 5, 8>>, <<0, 0, 0, 15, 4, 2, 4, 1>> } }

TemperatureEnv == [treeports |-> {MaxPorts}, statuses |-> {SENSOR_IN_OPERATE},
                   plant |-> TemperatureSensors]

TemperatureThresholds ==
    [k \in {"310"} \X {"T1"} \X {"temperaturemin", "temperaturemax"} |->
        IF k[3] = "temperaturemin" THEN 4000 ELSE 5000]
MisconfiguredThresholds ==
    [k \in {"310"} \X {"T1"} \X {"temperaturemin", "temperaturemax"} |->
        IF k[3] = "temperaturemin" THEN 7000 ELSE 5000]
MaximumOnly == [k \in {<<"310", "T1", "temperaturemax">>} |-> 5000]

InitTemperature ==
    /\ devicelist = {1}
    /\ env = TemperatureEnv
    /\ prr \in {NoThresholds, TemperatureThresholds, MisconfiguredThresholds, MaximumOnly}
    /\ iterations = [d \in Devices |-> DefaultIterations]
    /\ InitProcesses

SpecTemperature == InitTemperature /\ [][Next]_vars

\* A one-port master whose sensor reports many payloads.  The vibration
\* payloads are 12 hex digits built from three accelerations, three
\* velocities, two diagnosis bytes, three configuration digits and two last
\* digits; with them a payload of 4 digits and one with a character that is
\* no hex digit (written 16).
DecodedVibrationPayloads ==
    { acc \o vel \o diag \o <<conf, last>> :
        acc \in {<<0, 0, 0, 0>>, <<0, 4, 11, 0>>, <<15, 15, 15, 15>>},
        vel \in {<<0, 0, 6, 4>>, <<1, 2, 3, 4>>, <<15, 15, 15, 15>>},
        diag \in {<<0, 0>>, <<10, 5>>},
        conf \in {0, 7, 15},
        last \in {0, 15} }

MalformedVibrationPayloads ==
    { <<0, 4, 11, 0>>, <<0, 4, 11, 0, 0, 0, 6, 4, 0, 0, 16, 0>> }

VibrationDecodeEnv ==
    [treeports |-> {1}, statuses |-> {SENSOR_IN_OPERATE},
     plant |-> { [SensorS1 EXCEPT !.pdin = pd] :
                   pd \in DecodedVibrationPayloads \cup MalformedVibrationPayloads }]

\* The temperature payloads "0000012C", "00000000", "000F4241", "00ABCDEF",
\* "0CCCCCCC" and "12C"; with them the empty payload and one with a character
\* that is no hex digit.
DecodedTemperaturePayloads ==
    { <<0, 0, 0, 0, 0, 1, 2, 12>>, <<0, 0, 0, 0, 0, 0, 0, 0>>,
      <<0, 0, 0, 15, 4, 2, 4, 1>>, <<0, 0, 10, 11, 12, 13, 14, 15>>,
      <<0, 12, 12, 12, 12, 12, 12, 12>>, <<1, 2, 12>> }

MalformedTemperaturePayloads == { <<>>, <<0, 0, 0, 0, 0, 1, 2, 16>> }

TemperatureDecodeEnv ==
    [treeports |-> {1}, statuses |-> {SENSOR_IN_OPERATE},
     plant |-> { [SensorT1 EXCEPT !.pdin = pd] :
                   pd \in DecodedTemperaturePayloads \cup MalformedTemperaturePayloads }]

InitDecode ==
    /\ devicelist = {1}
    /\ env \in {VibrationDecodeEnv, TemperatureDecodeEnv}
    /\ prr = NoThresholds
    /\ iterations = [d \in Devices |-> DefaultIterations]
    /\ InitProcesses

SpecDecode == InitDecode /\ [][Next]_vars

\* A master with one port more, on which sensors without a codec can be
\* plugged: U1 is a vendor-310 sensor of type 400, U2 a type-416 sensor of
\* another vendor; S1 has a codec.  All three have thresholds of 10.0.
SensorU1 == [SensorS1 EXCEPT !.deviceid = "400", !.serial = "U1", !.productname = "PN7571"]
SensorU2 == [SensorS1 EXCEPT !.vendorid = "888", !.serial = "U2"]

UnregisteredEnv == [treeports |-> {MaxPorts + 1}, statuses |-> {SENSOR_IN_OPERATE},
                    plant |-> {SensorU1, SensorU2, SensorS1}]

ThresholdsForAll ==
    [k \in {"310", "888"} \X {"S1", "U1", "U2"} \X {"acceleration", "velocity"} |-> 1000]

InitUnregistered ==
    /\ devicelist = {1}
    /\ env = UnregisteredEnv
    /\ prr = ThresholdsForAll
    /\ iterations = [d \in Devices |-> DefaultIterations]
    /\ InitProcesses

SpecUnregistered == InitUnregistered /\ [][Next]_vars

\* A master with MaxPorts ports on which the temperature sensor T1 (30.0)
\* and the vibration sensor S1 (acceleration 12.00, thresholds 10.0) can be
\* plugged and unplugged.
ScenarioEnv == [treeports |-> {MaxPorts}, statuses |-> {0, SENSOR_IN_OPERATE},
                plant |-> {SensorT1, SensorS1}]

InitScenario ==
    /\ devicelist = {1}
    /\ env = ScenarioEnv
    /\ prr = VibrationThresholds
    /\ iterations = [d \in Devices |-> DefaultIterations]
    /\ InitProcesses

SpecScenario == InitScenario /\ [][Next]_vars

\* Texts of the two parts of a delay property: empty, not a number, negative,
\* below, at and above the bounds of each range.
DurationTexts ==
    {<<>>, <<"x">>, <<"-", "5">>, <<"4">>, <<"5">>, <<"1", "0">>,
     <<"6", "0", "0">>, <<"6", "0", "1">>}

IterationTexts ==
    {<<>>, <<"x">>, <<"-", "5">>, <<"4">>, <<"5">>, <<"6">>, <<"2", "0">>,
     <<"2", "1">>, <<"7", ",", "8">>}

DelayTexts ==
    DurationTexts \cup {a \o <<",">> \o b : a \in DurationTexts, b \in IterationTexts}

KnownName == [form |-> "name", name |-> "iolm1", known |-> TRUE]
UnknownName == [form |-> "name", name |-> "nowhere", known |-> FALSE]
Octets == [form |-> "octets", parts |-> <<192, 168, 1, 10>>]
BadOctets == [form |-> "octets", parts |-> <<192, 168, 1, 300>>]

\* One device with every delay text and a good address, or with the default
\* delay and every kind of address.
OneDeviceConfigs ==
    {[devices |-> {1},
      props |-> [d \in {1} |-> [ipaddress |-> Some(KnownName), delay |-> Some(t)]]] :
        t \in DelayTexts}
    \cup
    {[devices |-> {1},
      props |-> [d \in {1} |-> [ipaddress |-> a, delay |-> Some(<<"1", "0", ",", "6">>)]]] :
        a \in {None, Some(Octets), Some(BadOctets), Some(UnknownName)}}

\* Two devices, each with or without its delay property and with an address
\* that resolves or does not.
TwoDeviceProps ==
    {[ipaddress |-> Some(a), delay |-> t] :
        a \in {KnownName, UnknownName}, t \in {None, Some(<<"5", ",", "5">>)}}

TwoDeviceConfigs ==
    {[devices |-> {1, 2}, props |-> p] : p \in [{1, 2} -> TwoDeviceProps]}

NoDeviceConfig == [devices |-> {}, props |-> <<>>]

Configs == OneDeviceConfigs \cup TwoDeviceConfigs \cup {NoDeviceConfig}

\* Each master has one port with the vibration sensor S1 in operation.
ConfigEnv == [treeports |-> {1}, statuses |-> {SENSOR_IN_OPERATE},
              plant |-> {SensorS1}]

\* The program before main has read its configuration.
InitConfig ==
    /\ config \in Configs
    /\ mainpc = "start"
    /\ devicelist = {}
    /\ env = ConfigEnv
    /\ prr = VibrationThresholds
    /\ iterations = [d \in Devices |-> DefaultIterations]
    /\ InitLoops

SpecConfig == InitConfig /\ [][NextMain]_vars

\* A store whose writes can fail: rejected by the server as a client error,
\* failed on the server, or not reachable.
StorageEnv == [treeports |-> {MaxPorts}, statuses |-> {0, SENSOR_IN_OPERATE},
               plant |-> {SensorS1},
               writes |-> {"ok", "InfluxDBClientError", "InfluxDBServerError",
                           "ConnectionError"}]

InitStorage ==
    /\ devicelist = {1}
    /\ env = StorageEnv
    /\ prr = VibrationThresholds
    /\ iterations = [d \in Devices |-> DefaultIterations]
    /\ InitProcesses

SpecStorage == InitStorage /\ [][Next]_vars

\* A master with MaxPorts + 1 ports, so that the port loop covers MaxPorts
\* ports, with vibration sensors above one or both thresholds, and a
\* get-eventstamp that ends with exit status 0 or 1.
AuditEnv == [treeports |-> {MaxPorts + 1}, statuses |-> {0, SENSOR_IN_OPERATE},
             plant |-> {[SensorS1 EXCEPT !.pdin = VibrationPayload(<<0, 2, 5, 8>>, vel)] :
                           vel \in {<<0, 1, 9, 0>>, <<0, 2, 5, 8>>}},
             saas |-> {0, 1}]

InitAudit ==
    /\ devicelist = {1}
    /\ env = AuditEnv
    /\ prr = BothThresholds
    /\ iterations = [d \in Devices |-> DefaultIterations]
    /\ InitProcesses

SpecAudit == InitAudit /\ [][Next]_vars

\* The processes of Init, each of them scheduled again and again by the
\* operating system: a process that is at a position of its loop eventually
\* leaves it (every step of a process changes its position, and the sleep of
\* line 411 ends).
SpecLive == Init /\ [][Next]_vars /\ \A d \in Devices : WF_pc(Scheduled(d))

\* A master that reports MaxPorts ports at one time and MaxPorts + 1 at
\* another.
PortsEnv == [treeports |-> {MaxPorts, MaxPorts + 1}, statuses |-> {0, SENSOR_IN_OPERATE},
             plant |-> {SensorS1}]

InitPorts ==
    /\ devicelist = {1}
    /\ env = PortsEnv
    /\ prr = VibrationThresholds
    /\ iterations = [d \in Devices |-> DefaultIterations]
    /\ InitProcesses

SpecPorts == InitPorts /\ [][Next]_vars

\* A master whose health values change from one full poll to the next.
OverloadedMaster ==
    [DefaultMaster EXCEPT !.temperature = 70, !.supervisionstatus = 2, !.current = 900,
                          !.voltage = 23]

MasterEnv == [treeports |-> {MaxPorts}, statuses |-> {0, SENSOR_IN_OPERATE},
              plant |-> {SensorS1, SensorS1b},
              masters |-> {DefaultMaster, OverloadedMaster}]

InitMaster ==
    /\ devicelist = {1}
    /\ env = MasterEnv
    /\ prr = VibrationThresholds
    /\ iterations = [d \in Devices |-> DefaultIterations]
    /\ InitProcesses

SpecMaster == InitMaster /\ [][Next]_vars

\* Sensors on a two-port master whose payloads have the top bit set.  The
\* first port is the one the port loop reaches.  The temperature sensor T1
\* reports "0032" (5.0), "00C8" (20.0), "8000" and "FFF6", the last two being
\* -3276.8 and -1.0 when read as 16-bit two's complement; the vibration
\* sensor S1 reports accelerations and velocities of "0064", "8000" and
\* "FFFF".  The tables configure no minimum, or one of -10.0, 0.0 or 10.0.
SignedTemperatureEnv ==
    [treeports |-> {2}, statuses |-> {SENSOR_IN_OPERATE},
     plant |-> { [SensorT1 EXCEPT !.pdin = pd] :
                   pd \in { <<0, 0, 3, 2>>, <<0, 0, 12, 8>>, <<8, 0, 0, 0>>,
                            <<15, 15, 15, 6>> } }]
SignedVibrationEnv ==
    [treeports |-> {2}, statuses |-> {SENSOR_IN_OPERATE},
     plant |-> { [SensorS1 EXCEPT !.pdin = acc \o vel \o <<0, 0, 0, 0>>] :
                   acc \in {<<0, 0, 6, 4>>, <<8, 0, 0, 0>>, <<15, 15, 15, 15>>},
                   vel \in {<<0, 0, 6, 4>>, <<15, 15, 15, 15>>} }]

MinimumTables ==
    { [k \in {<<"310", "T1", "temperaturemin">>} |-> tmin] : tmin \in {0 - 1000, 0, 1000} }

InitSigned ==
    /\ devicelist = {1}
    /\ env \in {SignedTemperatureEnv, SignedVibrationEnv}
    /\ prr \in {NoThresholds} \cup MinimumTables
    /\ iterations = [d \in Devices |-> DefaultIterations]
    /\ InitProcesses

SpecSigned == InitSigned /\ [][Next]_vars

\* Ports in each of the four states of the status query; on a port that is
\* not in operate there can be a device that would answer the other queries.
StatusEnv == [treeports |-> {MaxPorts}, statuses |-> {0, 1, SENSOR_IN_OPERATE, 3},
              plant |-> {SensorS1}, attached |-> {NoDevice, SensorS1b}]

InitStatus ==
    /\ devicelist = {1}
    /\ env = StatusEnv
    /\ prr = VibrationThresholds
    /\ iterations = [d \in Devices |-> DefaultIterations]
    /\ InitProcesses

SpecStatus == InitStatus /\ [][Next]_vars

\* ================================================================== claims
ConfigurationEvents(evs) == SelectSeq(evs, LAMBDA e : e.evt = "CONFIGURATION")
EventsOfPort(evs, p) == SelectSeq(ConfigurationEvents(evs), LAMBDA e : e.port = p)

IsEmpty(sensor) == sensor.sensortype = "" /\ sensor.sensorprocessdata = None
IsPresent(sensor) == sensor.sensortype # "" /\ sensor.sensorprocessdata # None

\* The port loop of the cycle has run to its end with a previous topology.
Compared(d) == pc[d] = "sleep" /\ savesensorlist[d] # None

\* The kind of cycle the schedule of section 4.4 lets follow the cycles so far.
ExpectedKind(d) ==
    IF cyclekind[d] = "none" THEN "FULL"
    ELSE IF cyclekind[d] = "FULL" THEN "PARTIAL"
    ELSE IF partialrun[d] = iterations[d] THEN "FULL" ELSE "PARTIAL"

\* C1: the first cycle of a device is a FULL cycle, the cycle after a FULL
\* cycle is PARTIAL, and the cycle after a PARTIAL cycle is FULL exactly when
\* `iterations` PARTIAL cycles have run since the last FULL one.
C1_Schedule ==
    [][\A d \in Devices :
          (pc[d] = "top" /\ pc'[d] # "top") => cyclekind'[d] = ExpectedKind(d)]_vars

\* a FULL cycle other than the first, with the largest iteration count
C1_SecondFullPoll ==
    \E d \in Devices :
        /\ cyclekind[d] = "FULL"
        /\ savesensorlist[d] # None
        /\ iterations[d] = MaxIterations
        /\ pc[d] = "sleep"

\* C2 (as claimed): a GET that fails with a timeout or a connection error in
\* a poll cycle never ends the device's loop.
C2_TransportFailureSurvived ==
    \A d \in Devices :
        (/\ lastget[d].resp.error \in {"ConnectTimeout", "ConnectionError", "ReadTimeout"}
         /\ lastget[d].at \in {"master", "sensors", "diff"})
        => pc[d] # "crashed"

\* C3 (as claimed): for a response with a non-success status httpget returns
\* None and raises nothing, and the caller goes on.
C3_NotOkReturnsNone ==
    \A d \in Devices :
        lastget[d].resp = NotOkResponse
        => (lastget[d].isnone /\ lastget[d].exc = "" /\ pc[d] # "crashed")

\* C4 (as claimed): when the /gettree query of the start fails or brings no
\* response, getreadings runs no cycle and ends with the outcome 'NoData'.
C4_NoPortCountIsNoData ==
    \A d \in Devices :
        lastget[d].at = "start" => (pc[d] = "NoData" /\ cyclekind[d] = "none")

\* C5: while a device has no previous topology (its first cycle), no
\* CONFIGURATION event has been sent for it.
C5_FirstCycleSilent ==
    \A d \in Devices :
        savesensorlist[d] = None => ConfigurationEvents(events[d]) = <<>>

\* the port loop of a first cycle has run over a port that has a sensor
C5_FirstCycleWithSensor ==
    \E d \in Devices :
        /\ pc[d] = "sleep"
        /\ savesensorlist[d] = None
        /\ loopcount[d] >= 2
        /\ Len(sensorlist[d]) >= 1
        /\ IsPresent(sensorlist[d][1])

SameTopology(a, b) ==
    /\ Len(a) = Len(b)
    /\ \A p \in 1..Len(a) :
         /\ a[p].sensortype = b[p].sensortype
         /\ a[p].sensorserial = b[p].sensorserial

\* C6: when the previous and the current topology agree on every port in
\* sensor type and serial, the port loop sends no CONFIGURATION event.
C6_SameTopologySilent ==
    \A d \in Devices :
        (Compared(d) /\ SameTopology(Get(savesensorlist[d]), sensorlist[d]))
        => ConfigurationEvents(events[d]) = <<>>

\* a FULL cycle has rebuilt a topology equal to the previous one, they are two
\* lists, and the loop has compared a port that has a sensor
C6_RebuiltSameTopology ==
    \E d \in Devices :
        /\ Compared(d)
        /\ cyclekind[d] = "FULL"
        /\ ~aliased[d]
        /\ SameTopology(Get(savesensorlist[d]), sensorlist[d])
        /\ loopcount[d] >= 2
        /\ IsPresent(sensorlist[d][1])
        /\ Get(savesensorlist[d]) # sensorlist[d]

\* The ports whose list index the port loop of the cycle has reached.
Reached(d) == 1..Min(loopcount[d] - 1, Min(Len(sensorlist[d]), Len(Get(savesensorlist[d]))))

\* C7 (as claimed, for the ports the port loop reaches): a port empty in the
\* previous topology and with a sensor in the current one gets exactly one
\* NEWSENSORFOUND event, with the type and the serial of the new sensor.
C7_SensorAdded ==
    \A d \in Devices :
        Compared(d) =>
          \A p \in Reached(d) :
            (IsEmpty(Get(savesensorlist[d])[p]) /\ IsPresent(sensorlist[d][p]))
            => EventsOfPort(events[d], p) =
                 <<[evt |-> "CONFIGURATION", event |-> "NEWSENSORFOUND", port |-> p,
                    type |-> sensorlist[d][p].sensortype,
                    serial |-> sensorlist[d][p].sensorserial]>>

\* C8 (as claimed, for the ports the port loop reaches): a port with a sensor
\* in the previous topology and empty in the current one gets exactly one
\* SENSORNOTFOUND event, with the type and the serial of the removed sensor.
C8_SensorRemoved ==
    \A d \in Devices :
        Compared(d) =>
          \A p \in Reached(d) :
            (IsPresent(Get(savesensorlist[d])[p]) /\ IsEmpty(sensorlist[d][p]))
            => EventsOfPort(events[d], p) =
                 <<[evt |-> "CONFIGURATION", event |-> "SENSORNOTFOUND", port |-> p,
                    type |-> Get(savesensorlist[d])[p].sensortype,
                    serial |-> Get(savesensorlist[d])[p].sensorserial]>>

\* C9 (as claimed): a port with a sensor in both topologies and another sensor
\* type gets exactly one SENSORTYPECHANGED event and no other.
C9_TypeChanged ==
    \A d \in Devices :
        Compared(d) =>
          \A p \in 1..Min(Len(sensorlist[d]), Len(Get(savesensorlist[d]))) :
            (/\ IsPresent(Get(savesensorlist[d])[p])
             /\ IsPresent(sensorlist[d][p])
             /\ Get(savesensorlist[d])[p].sensortype # sensorlist[d][p].sensortype)
            => (/\ Len(EventsOfPort(events[d], p)) = 1
                /\ EventsOfPort(events[d], p)[1].event = "SENSORTYPECHANGED")

\* C10 (as claimed): a port with a sensor in both topologies, the same sensor
\* type and another serial gets exactly one SENSORSERIALCHANGED event.
C10_SerialChanged ==
    \A d \in Devices :
        Compared(d) =>
          \A p \in 1..Min(Len(sensorlist[d]), Len(Get(savesensorlist[d]))) :
            (/\ IsPresent(Get(savesensorlist[d])[p])
             /\ IsPresent(sensorlist[d][p])
             /\ Get(savesensorlist[d])[p].sensortype = sensorlist[d][p].sensortype
             /\ Get(savesensorlist[d])[p].sensorserial # sensorlist[d][p].sensorserial)
            => (/\ Len(EventsOfPort(events[d], p)) = 1
                /\ EventsOfPort(events[d], p)[1].event = "SENSORSERIALCHANGED")


\* ------------------------------------------------- coverage of the port loop
SensorEvents(evs) == SelectSeq(evs, LAMBDA e : e.evt = "SENSOR")
AlertsOfPort(evs, p) == SelectSeq(SensorEvents(evs), LAMBDA e : e.port = p)
AlertNames(evs, p) == {AlertsOfPort(evs, p)[i].event : i \in 1..Len(AlertsOfPort(evs, p))}

\* The sensor has decoded fields.
Decoded(sensor) == sensor.json # None /\ "fields" \in DOMAIN Get(sensor.json)
Fields(sensor) == Get(sensor.json).fields

\* The metric of the sensor has a threshold in the table.
Configured(sensor, metric) == Key(sensor, metric) \in DOMAIN prr

\* The alerts that section 4.3 of the specification asks for a decoded sensor.
ExceededAlerts(sensor) ==
    IF ~Decoded(sensor) THEN {}
    ELSE IF sensor.sensortype \in VibrationTypes
    THEN {n \in {"ACCELERATION"} :
            /\ Configured(sensor, "acceleration")
            /\ Fields(sensor).acceleration > prr[Key(sensor, "acceleration")]}
         \cup
         {n \in {"VELOCITY"} :
            /\ Configured(sensor, "velocity")
            /\ Fields(sensor).velocity > prr[Key(sensor, "velocity")]}
    ELSE IF sensor.sensortype \in TemperatureTypes
    THEN IF /\ Configured(sensor, "temperaturemin")
            /\ Fields(sensor).temperature < prr[Key(sensor, "temperaturemin")]
         THEN {"TEMPERATUREMIN"}
         ELSE {n \in {"TEMPERATUREMAX"} :
                 /\ Configured(sensor, "temperaturemax")
                 /\ Fields(sensor).temperature > prr[Key(sensor, "temperaturemax")]}
    ELSE {}

\* C11 (as claimed): when the port loop of a cycle has ended, every port of
\* the list, the last one included, whose sensor type or serial differs from
\* the previous topology has a change event, and every port with an exceeded
\* threshold has an alert.
C11_EveryPortCovered ==
    \A d \in Devices :
        pc[d] = "sleep" =>
          \A p \in 1..Len(sensorlist[d]) :
            /\ (/\ savesensorlist[d] # None
                /\ p <= Len(Get(savesensorlist[d]))
                /\ \/ Get(savesensorlist[d])[p].sensortype # sensorlist[d][p].sensortype
                   \/ Get(savesensorlist[d])[p].sensorserial # sensorlist[d][p].sensorserial)
               => EventsOfPort(events[d], p) # <<>>
            /\ ExceededAlerts(sensorlist[d][p]) # {}
               => AlertsOfPort(events[d], p) # <<>>


\* C12 (as claimed, for the ports in the range of the port loop): the change
\* events of port p in a cycle are those that the comparison of previous[p]
\* with current[p] alone yields, whatever the other ports hold.
C12_PortsIndependent ==
    \A d \in Devices :
        Compared(d) =>
          \A p \in Reached(d) :
            EventsOfPort(events[d], p) =
              DifferSaved(<<Get(savesensorlist[d])[p]>>, <<sensorlist[d][p]>>, 0).events


\* ------------------------------------------------------ threshold evaluator
\* The alert of each metric that has a threshold.
AlertOfMetric ==
    [m \in {"acceleration", "velocity", "temperaturemin", "temperaturemax"} |->
        IF m = "acceleration" THEN "ACCELERATION"
        ELSE IF m = "velocity" THEN "VELOCITY"
        ELSE IF m = "temperaturemin" THEN "TEMPERATUREMIN" ELSE "TEMPERATUREMAX"]

\* C13 (as claimed): a metric of a sensor that has no entry in the threshold
\* table never gets an alert, and the port loop ends without an exception.
C13_MissingThresholdSilent ==
    \A d \in Devices :
        /\ ~(pc[d] = "crashed" /\ raised[d].at = "diff" /\ lastget[d].exc = "")
        /\ pc[d] = "sleep" =>
             \A p \in 1..Len(sensorlist[d]) : \A m \in DOMAIN AlertOfMetric :
                ~Configured(sensorlist[d][p], m)
                => AlertOfMetric[m] \notin AlertNames(events[d], p)


\* The ports whose list index is in the range of the port loop of the cycle.
InRange(d) == 1..Min(loopcount[d] - 1, Len(sensorlist[d]))

\* C14 (as claimed, for the ports in the range of the port loop): a decoded
\* vibration sensor gets the acceleration alert exactly when an acceleration
\* threshold is configured and exceeded, the velocity alert exactly when a
\* velocity threshold is configured and exceeded, each at most once, and
\* neither depends on the other metric's threshold.
C14_VibrationChecksIndependent ==
    \A d \in Devices :
        pc[d] = "sleep" =>
          \A p \in InRange(d) :
            (sensorlist[d][p].sensortype \in VibrationTypes /\ Decoded(sensorlist[d][p]))
            => /\ AlertNames(events[d], p) = ExceededAlerts(sensorlist[d][p])
               /\ Len(AlertsOfPort(events[d], p)) = Cardinality(ExceededAlerts(sensorlist[d][p]))


\* The bounds the evaluator uses for a temperature sensor: the entry of the
\* table, or the default of lines 368-378 when the table has none.
MinimumOf(sensor) ==
    IF Configured(sensor, "temperaturemin") THEN prr[Key(sensor, "temperaturemin")]
    ELSE DefaultMinTemperature
MaximumOf(sensor) ==
    IF Configured(sensor, "temperaturemax") THEN prr[Key(sensor, "temperaturemax")]
    ELSE DefaultMaxThreshold

\* C15: a decoded temperature sensor gets at most one alert in a cycle: a
\* TEMPERATUREMIN alert only when the temperature is below the minimum, a
\* TEMPERATUREMAX alert only when it is not below the minimum and above the
\* maximum; on a port in the range of the port loop the alert is sent whenever
\* its condition holds, so a temperature below a minimum that lies above the
\* maximum gets the TEMPERATUREMIN alert alone.
C15_OneTemperatureAlert ==
    \A d \in Devices :
        pc[d] = "sleep" =>
          \A p \in 1..Len(sensorlist[d]) :
            (sensorlist[d][p].sensortype \in TemperatureTypes /\ Decoded(sensorlist[d][p]))
            => LET sensor == sensorlist[d][p]
                   temp == Fields(sensor).temperature
                   alerts == AlertsOfPort(events[d], p)
                   below == temp < MinimumOf(sensor)
                   above == temp > MaximumOf(sensor)
               IN  /\ Len(alerts) <= 1
                   /\ \A i \in 1..Len(alerts) :
                        \/ alerts[i].event = "TEMPERATUREMIN" /\ below
                        \/ alerts[i].event = "TEMPERATUREMAX" /\ ~below /\ above
                   /\ p \in InRange(d) =>
                        /\ below => AlertNames(events[d], p) = {"TEMPERATUREMIN"}
                        /\ (~below /\ above) => AlertNames(events[d], p) = {"TEMPERATUREMAX"}

\* A temperature of 60.0 with the minimum 70.0 configured above the maximum
\* 50.0 has been evaluated: the TEMPERATUREMIN alert is the only one.
C15_BelowMisconfiguredMinimum ==
    \E d \in Devices :
        /\ pc[d] = "sleep"
        /\ prr = MisconfiguredThresholds
        /\ 1 \in InRange(d)
        /\ Decoded(sensorlist[d][1])
        /\ Fields(sensorlist[d][1]).temperature = 6000
        /\ Len(AlertsOfPort(events[d], 1)) = 1
        /\ AlertsOfPort(events[d], 1)[1].event = "TEMPERATUREMIN"


\* C16 (as claimed): a sensor for which the threshold table has no entry at
\* all gets no alert, whatever its process data decodes to.
C16_UnconfiguredNeverAlerts ==
    \A d \in Devices :
        pc[d] = "sleep" =>
          \A p \in 1..Len(sensorlist[d]) :
            (\A m \in DOMAIN AlertOfMetric : ~Configured(sensorlist[d][p], m))
            => AlertsOfPort(events[d], p) = <<>>


\* ----------------------------------------------------------------- decoder
\* The decode loop of the cycle has set json on every sensor of the list.
DecodeDone(d) == pc[d] \in {"diff", "sleep", "top"}

IsHex(pd) == \A i \in 1..Len(pd) : pd[i] \in 0..15

\* C17: a vendor-310 sensor of type 416 or 417 whose process data is 12 hex
\* digits decodes to acceleration = digits 0-3 / 100, velocity = digits 4-7 /
\* 100 (both held in hundredths), diagnosis = digits 8-9 and configuration =
\* digit 10, each read as a big-endian hex number.
C17_VibrationDecoding ==
    \A d \in Devices :
        DecodeDone(d) =>
          \A k \in 1..Len(sensorlist[d]) :
            LET sensor == sensorlist[d][k]
            IN  (/\ sensor.sensorvendorid = "310"
                 /\ sensor.sensortype \in VibrationTypes
                 /\ sensor.sensorprocessdata # None
                 /\ Len(Get(sensor.sensorprocessdata)) = 12
                 /\ IsHex(Get(sensor.sensorprocessdata)))
                => LET pd == Get(sensor.sensorprocessdata)
                   IN  sensor.json =
                         Some([measurement |-> "vibrationEvents",
                               fields |->
                                 [acceleration |-> 4096 * pd[1] + 256 * pd[2] + 16 * pd[3] + pd[4],
                                  velocity |-> 4096 * pd[5] + 256 * pd[6] + 16 * pd[7] + pd[8],
                                  diagnosis |-> 16 * pd[9] + pd[10],
                                  configuration |-> pd[11]]])

\* The payload "04B01234A57F" has been decoded: acceleration 12.00, velocity
\* 46.60, diagnosis 0xA5, configuration 7.
C17_DecodedVibration ==
    \E d \in Devices :
        /\ pc[d] = "diff"
        /\ sensorlist[d][1].sensorprocessdata =
             Some(<<0, 4, 11, 0, 1, 2, 3, 4, 10, 5, 7, 15>>)
        /\ Decoded(sensorlist[d][1])
        /\ Fields(sensorlist[d][1]) =
             [acceleration |-> 1200, velocity |-> 4660, diagnosis |-> 165,
              configuration |-> 7]

\* 16 to the power n
RECURSIVE Pow16(_)
Pow16(n) == IF n = 0 THEN 1 ELSE 16 * Pow16(n - 1)

\* The big-endian unsigned number that the hex digits of pd[from..] write.
RECURSIVE BigEndian(_, _)
BigEndian(pd, from) ==
    IF from > Len(pd) THEN 0
    ELSE pd[from] * Pow16(Len(pd) - from) + BigEndian(pd, from + 1)

\* C18: a vendor-310 sensor of type 446 whose process data is a string of hex
\* digits decodes to temperature = the whole string as a big-endian unsigned
\* number / 10 (held in hundredths: 10 times the number).
C18_TemperatureDecoding ==
    \A d \in Devices :
        DecodeDone(d) =>
          \A k \in 1..Len(sensorlist[d]) :
            LET sensor == sensorlist[d][k]
            IN  (/\ sensor.sensorvendorid = "310"
                 /\ sensor.sensortype \in TemperatureTypes
                 /\ sensor.sensorprocessdata # None
                 /\ Get(sensor.sensorprocessdata) # <<>>
                 /\ IsHex(Get(sensor.sensorprocessdata)))
                => sensor.json =
                     Some([measurement |-> "temperatureEvents",
                           fields |->
                             [temperature |->
                                10 * BigEndian(Get(sensor.sensorprocessdata), 1)]])

\* The payload "0000012C" has been decoded to 30.0.
C18_DecodedThirtyDegrees ==
    \E d \in Devices :
        /\ pc[d] = "diff"
        /\ sensorlist[d][1].sensortype \in TemperatureTypes
        /\ sensorlist[d][1].sensorprocessdata = Some(<<0, 0, 0, 0, 0, 1, 2, 12>>)
        /\ Decoded(sensorlist[d][1])
        /\ Fields(sensorlist[d][1]).temperature = 3000


\* The sensor has a codec and its process data is not what the codec reads:
\* for the vibration codec a string that is not 12 hex digits, for the
\* temperature codec an empty string or one with a character that is no hex
\* digit.
Malformed(sensor) ==
    /\ sensor.sensorvendorid = "310"
    /\ sensor.sensorprocessdata # None
    /\ \/ /\ sensor.sensortype \in VibrationTypes
          /\ \/ Len(Get(sensor.sensorprocessdata)) # 12
             \/ ~IsHex(Get(sensor.sensorprocessdata))
       \/ /\ sensor.sensortype \in TemperatureTypes
          /\ \/ Get(sensor.sensorprocessdata) = <<>>
             \/ ~IsHex(Get(sensor.sensorprocessdata))

\* C19 (as claimed): when a sensor with a codec reports malformed process
\* data, the decode step raises nothing, the cycle goes on, and the sensor is
\* left without decoded fields.
C19_MalformedIsUnrecognized ==
    \A d \in Devices :
        \A k \in 1..Len(sensorlist[d]) :
            Malformed(sensorlist[d][k])
            => /\ ~(pc[d] = "crashed" /\ raised[d].at = "decode")
               /\ DecodeDone(d) => sensorlist[d][k].json = None


\* C20 (as claimed): when a partial poll finds no sensor on a port whose
\* entry names a sensor with a codec, the process data is absent, the decode
\* step raises nothing and leaves the entry without decoded fields, and the
\* cycle goes on.
C20_UnpluggedInPartialPoll ==
    \A d \in Devices :
        cyclekind[d] = "PARTIAL" =>
          \A k \in 1..Len(sensorlist[d]) :
            (/\ sensorlist[d][k].sensorvendorid = "310"
             /\ sensorlist[d][k].sensortype \in VibrationTypes \cup TemperatureTypes
             /\ sensorlist[d][k].sensorprocessdata = None)
            => /\ ~(pc[d] = "crashed" /\ raised[d].at = "decode")
               /\ DecodeDone(d) => sensorlist[d][k].json = None


\* ------------------------------------------------------ unregistered codecs
\* The (vendor id, sensor type) pairs that have a codec.
RegisteredCodecs == {<<"310", "416">>, <<"310", "417">>, <<"310", "446">>}

\* A sensor is on the port and its pair has no codec.
Unregistered(sensor) ==
    /\ sensor.sensortype # ""
    /\ <<sensor.sensorvendorid, sensor.sensortype>> \notin RegisteredCodecs

\* The measurement points of the cycle that belong to port p.
PointsOfPort(points, p) ==
    SelectSeq(points, LAMBDA w : w.measurement \notin {"iolmEvents", "saasResults"} /\ w.sensorport = p)

\* C21: a sensor whose (vendor id, sensor type) pair has no codec is decoded
\* to nothing, no measurement of its port is written and no alert of its port
\* is sent, in every cycle; the decode loop raises nothing, and a port in the
\* range of the port loop that only such sensors precede gets its alerts.
C21_UnregisteredIsSilent ==
    \A d \in Devices :
        /\ raised[d].at # "decode"
        /\ \A p \in 1..Len(sensorlist[d]) :
             Unregistered(sensorlist[d][p])
             => /\ DecodeDone(d) => sensorlist[d][p].json = None
                /\ DecodeDone(d) => PointsOfPort(written[d], p) = <<>>
                /\ AlertsOfPort(events[d], p) = <<>>
        /\ pc[d] = "sleep" =>
             \A q \in InRange(d) :
                (/\ \A p \in 1..(q - 1) : Unregistered(sensorlist[d][p])
                 /\ ~Unregistered(sensorlist[d][q]))
                => AlertNames(events[d], q) = ExceededAlerts(sensorlist[d][q])

\* A cycle has ended with a type-416 sensor of another vendor on port 1 and,
\* behind it, the sensor S1 on port 2 with its acceleration alert.
C21_UnregisteredThenAlert ==
    \E d \in Devices :
        /\ pc[d] = "sleep"
        /\ Len(sensorlist[d]) >= 2
        /\ sensorlist[d][1].sensorvendorid = "888"
        /\ sensorlist[d][1].sensortype = "416"
        /\ sensorlist[d][1].sensorprocessdata # None
        /\ sensorlist[d][1].json = None
        /\ 2 \in InRange(d)
        /\ sensorlist[d][2].sensorserial = "S1"
        /\ AlertNames(events[d], 2) = {"ACCELERATION"}


\* ---------------------------------------------------------------- scenario
\* C22 (as claimed): on a 2-port master, a full poll that finds port 1 empty
\* and on port 2 a type-446 sensor with "0000012C" writes a temperature of
\* 30.0; when the partial poll after it finds on port 1 the process data of a
\* newly connected vibration sensor with acceleration 12.00 above its
\* threshold 10.0, the cycle sends one NEWSENSORFOUND event and one
\* ACCELERATION alert for port 1.
C22_EndToEnd ==
    \A d \in Devices :
        (/\ pc[d] = "sleep"
         /\ Len(sensorlist[d]) = 2
         /\ sensorlist[d][2].sensortype = "446"
         /\ sensorlist[d][2].sensorprocessdata = Some(SensorT1.pdin)
         /\ sensorlist[d][1].sensortype = "")
        => /\ (cyclekind[d] = "FULL" /\ sensorlist[d][1].sensorprocessdata = None)
              => PointsOfPort(written[d], 2) =
                   <<[measurement |-> "temperatureEvents", sensorport |-> 2,
                      fields |-> [temperature |-> 3000]]>>
           /\ (/\ cyclekind[d] = "PARTIAL"
               /\ partialrun[d] = 1
               /\ sensorlist[d][1].sensorprocessdata = Some(SensorS1.pdin))
              => /\ Len(EventsOfPort(events[d], 1)) = 1
                 /\ EventsOfPort(events[d], 1)[1].event = "NEWSENSORFOUND"
                 /\ Len(AlertsOfPort(events[d], 1)) = 1
                 /\ AlertNames(events[d], 1) = {"ACCELERATION"}


\* ------------------------------------------------------ processes and main
\* Everything the process of device d owns.
Local(d) ==
    <<pc[d], iterations[d], duration[d], numports[d], iolminfo[d], fullinfo[d], itercount[d],
      sensorlist[d], savesensorlist[d], aliased[d], events[d], saas[d], written[d],
      cyclekind[d], partialrun[d], loopcount[d], lastget[d], asked[d], raised[d]>>

\* C23: main starts exactly one poll-loop process per configured device and
\* never a second one; a step of one process, its failure included, changes
\* nothing of any other process nor anything the processes share; and when a
\* process has ended on an exception, every other process whose loop has not
\* ended can still take its next step.
C23_ProcessesAreIsolated ==
    /\ [][/\ (mainpc = "start" /\ mainpc' = "waiting") =>
                /\ devicelist' = config.devices
                /\ \A d \in Devices : (pc'[d] = "start") <=> (d \in config.devices)
          /\ mainpc = "waiting" =>
                \A d \in Devices :
                    /\ (pc[d] # "start") => (pc'[d] # "start")
                    /\ (d \notin devicelist) => (Local(d)' = Local(d))
                    /\ (Local(d)' # Local(d)) =>
                          /\ \A e \in Devices \ {d} : Local(e)' = Local(e)
                          /\ UNCHANGED <<config, mainpc, devicelist, env, prr>>]_vars
    /\ [](\A d \in devicelist :
            (pc[d] = "crashed") =>
                \A e \in devicelist \ {d} :
                    (pc[e] \in LoopPositions) => ENABLED Step(e))

\* One process has ended on an exception while the other has gone through
\* two cycles and sleeps before its third.
C23_OneFailedOtherRuns ==
    /\ devicelist = {1, 2}
    /\ pc[1] = "crashed"
    /\ pc[2] = "sleep"
    /\ itercount[2] >= 2


\* C24: when main has read the configuration, exactly the devices whose
\* parameters are complete (a delay property, an address that resolves) have
\* a process started; a device with missing or invalid parameters keeps only
\* itself from being started.
C24_OnlyInvalidDeviceNotStarted ==
    [][(mainpc = "start" /\ mainpc' # "start") =>
          \A d \in config.devices :
              (pc'[d] = "start") <=> check(DeviceFromProperties(d, config.props[d]))]_vars


\* The process of device d has ended: on an uncaught exception, or by the
\* return of getreadings without a database or without a port count.
Ended(d) == raised[d] # NotRaised \/ pc[d] \in {"crashed", "NoConnection", "NoData"}

\* C25: a process that has ended is never started again, nothing of it
\* changes any more, and main stays in its endless sleep.
C25_NeverRestarted ==
    [][/\ \A d \in Devices : Ended(d) => (Local(d)' = Local(d))
       /\ (mainpc = "waiting") => (mainpc' = "waiting")]_vars

\* Main sleeps while the only process it has started has ended on an
\* exception.
C25_MainOutlivesProcess ==
    /\ mainpc = "waiting"
    /\ devicelist = {1}
    /\ config.devices = {1}
    /\ pc[1] = "crashed"
    /\ raised[1] # NotRaised


\* The numbers written by the texts of DurationTexts and IterationTexts.
NumberOf ==
    (<<"-", "5">> :> (0 - 5)) @@ (<<"4">> :> 4) @@ (<<"5">> :> 5) @@ (<<"6">> :> 6)
    @@ (<<"1", "0">> :> 10) @@ (<<"2", "0">> :> 20) @@ (<<"2", "1">> :> 21)
    @@ (<<"6", "0", "0">> :> 600) @@ (<<"6", "0", "1">> :> 601)

Written(text, low, high) ==
    text \in DOMAIN NumberOf /\ NumberOf[text] >= low /\ NumberOf[text] <= high

\* What the delay text made of a duration part and, behind a separator, an
\* iterations part has to give.
ExpectedDelay(a, b) ==
    IF ~Written(a, 5, 600) THEN [duration |-> 10, iterations |-> 6]
    ELSE [duration |-> NumberOf[a],
          iterations |-> IF Written(b, 5, 20) THEN NumberOf[b] ELSE 6]

\* C26: whatever the delay property holds, a device that main has started
\* has a duration in 5..600 and an iteration count in 5..20: a duration that
\* is not a number or is out of range gives the defaults 10 and 6, and an
\* iterations part that is missing, not a number or out of range gives 6.
C26_DelayParsedInRange ==
    (mainpc = "waiting") =>
        \A d \in devicelist :
            LET text == Get(config.props[d].delay)
                parsed == [duration |-> duration[d], iterations |-> iterations[d]]
            IN  /\ duration[d] \in 5..600
                /\ iterations[d] \in 5..20
                /\ \A a \in DurationTexts :
                      /\ (text = a) => (parsed = ExpectedDelay(a, <<>>))
                      /\ \A b \in IterationTexts :
                            (text = a \o <<",">> \o b) => (parsed = ExpectedDelay(a, b))

\* A device configured with the delay "601,20" runs with the defaults.
C26_OutOfRangeDefaulted ==
    /\ mainpc = "waiting"
    /\ 1 \in devicelist
    /\ Get(config.props[1].delay) = <<"6", "0", "1", ",", "2", "0">>
    /\ duration[1] = 10
    /\ iterations[1] = 6
    /\ pc[1] = "sleep"


\* ---------------------------------------------------------- storage writes
\* C27: a write of the master's point or of a sensor's point that fails does
\* not end the cycle: the process goes on to the next step of its loop.
C27_WriteFailureSurvived ==
    \A d \in devicelist : (raised[d].at = "write") => (pc[d] \in LoopPositions)


\* ------------------------------------------------------------ audit events
SaasPoints(points) == SelectSeq(points, LAMBDA w : w.measurement = "saasResults")

\* The events among evs whose get-eventstamp ended with exit status 0.
Stamped(evs, sts) ==
    LET ok == SelectSeq([i \in 1..Len(evs) |-> i], LAMBDA i : sts[i] = 0)
    IN  [j \in 1..Len(ok) |-> evs[ok[j]]]

\* C28: an event whose get-eventstamp ends with a non-zero exit status is
\* dropped.  The result points written in a cycle are those of the events
\* with exit status 0, in order, so none is written for a failed one; the
\* events handed to sendtosaas in a cycle are the ones the differ and the
\* evaluator of this cycle produce, each once, so none is sent again; and a
\* failed event ends neither the port loop nor the process.
C28_FailedAuditDropped ==
    /\ [](\A d \in devicelist :
            /\ Len(saas[d]) = Len(events[d])
            /\ raised[d].at # "write" =>
                  [j \in 1..Len(SaasPoints(written[d])) |-> SaasPoints(written[d])[j].event]
                      = Stamped(events[d], saas[d]))
    /\ [][\A d \in devicelist :
            (pc[d] = "diff" /\ pc'[d] # "diff" /\ lastget'[d] = lastget[d]) =>
                LET r == PortLoop(0, loopcount'[d] - 1, savesensorlist[d], sensorlist[d], prr)
                IN  /\ raised'[d].at # "write" => events'[d] = r.events
                    /\ (pc'[d] = "crashed" /\ raised'[d].at = "diff") => r.exc # ""]_vars

\* The event of port 1 failed in the audit, the event of port 2 after it was
\* stamped and its result point written, and the cycle has come to its end.
C28_FailedThenStamped ==
    /\ pc[1] = "sleep"
    /\ Len(events[1]) >= 2
    /\ \E i, j \in 1..Len(events[1]) :
         /\ i < j
         /\ events[1][i].port = 1 /\ saas[1][i] # 0
         /\ events[1][j].port = 2 /\ saas[1][j] = 0
         /\ \E k \in 1..Len(written[1]) :
              /\ written[1][k].measurement = "saasResults"
              /\ written[1][k].event = events[1][j]


\* ----------------------------------------------------------------- liveness
\* C29: a loop that has started and whose HTTP calls all succeed never
\* ends: cycles with a full poll and cycles with a partial poll both come
\* again and again.
C29_LoopRunsForEver ==
    \A d \in Devices :
        (<>(pc[d] = "top") /\ [](lastget[d] = NoGet)) =>
            /\ []<>(pc[d] = "decode" /\ cyclekind[d] = "FULL")
            /\ []<>(pc[d] = "decode" /\ cyclekind[d] = "PARTIAL")


\* ------------------------------------------------------ length of topology
\* C30: from a full poll on the topology numbers its entries 1, 2, ... with
\* one entry for every port, an empty port included; and when the port loop
\* of a cycle has run, the topology has as many entries as the port count
\* the master reported for that loop.
C30_TopologyMatchesPortCount ==
    \A d \in devicelist :
        /\ pc[d] \in {"decode", "diff", "sleep"} =>
              \A i \in 1..Len(sensorlist[d]) : sensorlist[d][i].sensorport = i
        /\ pc[d] = "sleep" => Len(sensorlist[d]) = loopcount[d]


\* ------------------------------------------------- frame of a partial poll
\* What a topology entry says about the port and the sensor on it.
Identity(sensor) ==
    <<sensor.sensorport, sensor.sensortype, sensor.sensorvendorid, sensor.sensorserial,
      sensor.sensorname, sensor.sensorlocalname>>

\* C31: every step of a cycle that takes the partial branch leaves the
\* length of the topology, the port number, type, vendor id, serial, product
\* name and local name of each entry, and the master's port count, identity
\* and health fields as they were: only process data (and the json decoded
\* from it) changes.
C31_PartialPollFrame ==
    [][\A d \in devicelist :
          (cyclekind'[d] = "PARTIAL") =>
              /\ Len(sensorlist'[d]) = Len(sensorlist[d])
              /\ \A k \in 1..Len(sensorlist[d]) :
                    Identity(sensorlist'[d][k]) = Identity(sensorlist[d][k])
              /\ iolminfo'[d] = iolminfo[d]
              /\ numports'[d] = numports[d]]_vars

\* A partial cycle has run to its end in which a port that was empty at the
\* last full poll delivers process data: the entry has the data, and still
\* no type.
C31_DataWithoutIdentity ==
    /\ cyclekind[1] = "PARTIAL"
    /\ pc[1] = "sleep"
    /\ iolminfo[1] = ReadMaster(OverloadedMaster)
    /\ \E k \in 1..Len(sensorlist[1]) :
         /\ sensorlist[1][k].sensortype = ""
         /\ sensorlist[1][k].sensorprocessdata # None


\* ---------------------------------------------------------- master snapshot
MasterPointsOf(points) == SelectSeq(points, LAMBDA w : w.measurement = "iolmEvents")

\* An entry as getsensorsondevices builds it: nothing decoded yet.
Fresh(list) == \A k \in 1..Len(list) : list[k].sensorport = k /\ list[k].json = JsonInit

\* C32: once the poll of a cycle is done, a full cycle has written exactly
\* one point of the master, built from the fields just read, and a partial
\* cycle none; and the poll of a full cycle leaves a newly built topology
\* while the poll of a partial cycle keeps the entries of the cycle before.
C32_MasterSnapshotPerFullPoll ==
    /\ [](\A d \in devicelist :
            (pc[d] \in {"decode", "diff", "sleep"}) =>
                /\ (cyclekind[d] = "FULL") =>
                      MasterPointsOf(written[d]) = <<MasterPoint(iolminfo[d], numports[d])>>
                /\ (cyclekind[d] = "PARTIAL") => MasterPointsOf(written[d]) = <<>>)
    /\ [][\A d \in devicelist :
            (pc[d] = "top" /\ pc'[d] = "decode") =>
                /\ (cyclekind'[d] = "FULL") =>
                      /\ Fresh(sensorlist'[d])
                      /\ ~aliased'[d]
                      /\ \E m \in Masters : iolminfo'[d] = ReadMaster(m)
                /\ (cyclekind'[d] = "PARTIAL") =>
                      /\ aliased'[d] = aliased[d]
                      /\ sensorlist'[d] # <<>> => ~Fresh(sensorlist'[d])
                      /\ iolminfo'[d] = iolminfo[d]]_vars

\* A full cycle that is not the first one has written the one point of the
\* overloaded master.
C32_LaterFullPoll ==
    /\ cyclekind[1] = "FULL"
    /\ pc[1] = "sleep"
    /\ savesensorlist[1] # None
    /\ MasterPointsOf(written[1]) = <<MasterPoint(ReadMaster(OverloadedMaster), numports[1])>>


\* ------------------------------------------------------- order of the steps
\* C33: in a cycle the points of the sensors are written before anything is
\* sent to sendtosaas, and every change event of the cycle is sent before
\* any threshold alert of the cycle.
C33_ChangeEventsBeforeAlerts ==
    \A d \in devicelist :
        /\ (pc[d] \in {"decode", "diff"}) => (events[d] = <<>>)
        /\ \A i, j \in 1..Len(events[d]) :
              (events[d][i].evt = "SENSOR" /\ events[d][j].evt = "CONFIGURATION") => (j < i)


\* ------------------------------------------------------ previous topology
\* C34: the previous topology that the differ of a cycle reads is the value
\* the cycle before left: neither the poll nor the decoding of the current
\* cycle changes it.
C34_PreviousTopologyKept ==
    [][\A d \in devicelist :
          (pc[d] \in {"top", "decode"}) => (savesensorlist'[d] = savesensorlist[d])]_vars


\* ------------------------------------------------------ voltage and current
\* C35: the point of the master carries, as volts and as milliamperes, the
\* supply voltage and the current that one of the masters reports.
C35_VoltsIsSupplyVoltage ==
    \A d \in devicelist :
        \A k \in 1..Len(MasterPointsOf(written[d])) :
            \E m \in Masters :
                /\ MasterPointsOf(written[d])[k].fields.volts = m.voltage
                /\ MasterPointsOf(written[d])[k].fields.milliamperes = m.current


\* ------------------------------------------- change events and full polls
\* C36: no change event is sent in the first cycle nor in a cycle of the
\* partial branch: throughout a partial cycle the previous topology is the
\* current list itself, so type and serial are the same on every port.
C36_NoChangeEventInPartialCycle ==
    \A d \in devicelist :
        /\ (cyclekind[d] = "PARTIAL") =>
              /\ ConfigurationEvents(events[d]) = <<>>
              /\ savesensorlist[d] = Some(sensorlist[d])
        /\ (savesensorlist[d] = None) => (ConfigurationEvents(events[d]) = <<>>)

\* A partial cycle has run its port loop and sent an alert, and a port that
\* was empty at the last full poll now delivers process data: no change
\* event was sent for it.
C36_PluggedBetweenFullPolls ==
    /\ cyclekind[1] = "PARTIAL"
    /\ pc[1] = "sleep"
    /\ SensorEvents(events[1]) # <<>>
    /\ ConfigurationEvents(events[1]) = <<>>
    /\ \E k \in 1..Len(sensorlist[1]) :
         /\ sensorlist[1][k].sensortype = ""
         /\ sensorlist[1][k].sensorprocessdata # None


\* Type and serial of the entries of a topology, port by port.
TypesAndSerials(list) == [k \in 1..Len(list) |-> <<list[k].sensortype, list[k].sensorserial>>]

\* C37: a change event for a port is sent only by the port loop of a full
\* cycle in which type or serial of the port differ from those of the full
\* poll before, and then once.  The previous topology carries the types and
\* serials of the full poll before: the end of a cycle saves the current
\* topology, and no step of a partial cycle changes a type or a serial in
\* it.  So a change is not reported again by a later cycle.
C37_ChangeReportedOnce ==
    [][\A d \in devicelist :
          /\ (pc[d] = "diff") =>
                \A p \in 1..MaxPorts + 1 :
                    (EventsOfPort(events'[d], p) # <<>>) =>
                        /\ Len(EventsOfPort(events'[d], p)) = 1
                        /\ cyclekind[d] = "FULL"
                        /\ savesensorlist[d] # None
                        /\ TypesAndSerials(Get(savesensorlist[d]))[p]
                              # TypesAndSerials(sensorlist[d])[p]
          /\ (pc[d] = "sleep") =>
                /\ savesensorlist'[d] = Some(sensorlist[d])
                /\ sensorlist'[d] = sensorlist[d]
          /\ (cyclekind'[d] = "PARTIAL" /\ savesensorlist[d] # None) =>
                TypesAndSerials(Get(savesensorlist'[d])) = TypesAndSerials(Get(savesensorlist[d]))]_vars

\* The second full poll found another type on port 1 than the first one:
\* its port loop has sent one change event for the port.
C37_ChangeReported ==
    /\ cyclekind[1] = "FULL"
    /\ pc[1] = "sleep"
    /\ savesensorlist[1] # None
    /\ Len(EventsOfPort(events[1], 1)) = 1
    /\ Get(savesensorlist[1])[1].sensortype = "416"
    /\ sensorlist[1][1].sensortype = "417"


\* The entry of a port without a sensor (line 439).
NoSensor(entry) ==
    /\ Identity(entry) = Identity(IOLinkSensorInformation(entry.sensorport, "", "", "", "", "", None))
    /\ entry.sensorprocessdata = None

\* C38: after a full poll the entry of a port whose status query returned 2
\* holds the identity and process data that were queried for it, and for any
\* other status the entry is the empty one and nothing but the status was
\* queried; after a partial poll the process data of a port were queried and
\* are present for status 2, and are absent and were not queried otherwise.
C38_SensorExactlyInOperate ==
    \A d \in devicelist :
        (pc[d] \in {"decode", "diff", "sleep"}) =>
            /\ Len(asked[d]) = Len(sensorlist[d])
            /\ \A k \in 1..Len(sensorlist[d]) :
                 IF asked[d][k].status = SENSOR_IN_OPERATE
                 THEN /\ sensorlist[d][k].sensorprocessdata # None
                      /\ "pdin" \in asked[d][k].queries
                      /\ (cyclekind[d] = "FULL") =>
                            /\ sensorlist[d][k].sensortype # ""
                            /\ {"deviceid", "serial"} \subseteq asked[d][k].queries
                      /\ (cyclekind[d] = "PARTIAL") => asked[d][k].queries = {"pdin"}
                 ELSE /\ asked[d][k].queries = {}
                      /\ sensorlist[d][k].sensorprocessdata = None
                      /\ (cyclekind[d] = "FULL") => NoSensor(sensorlist[d][k])

\* A partial poll finds the sensor that the full poll found on port 1 with
\* the status WRONG, and port 2, for which the full poll made the empty
\* entry, in PREOPERATE.
C38_PreoperateAndWrong ==
    /\ pc[1] = "decode"
    /\ cyclekind[1] = "PARTIAL"
    /\ asked[1][1].status = 3
    /\ sensorlist[1][1].sensortype = "416"
    /\ sensorlist[1][1].sensorprocessdata = None
    /\ asked[1][2].status = 1
    /\ NoSensor(sensorlist[1][2])


\* The number of a payload's top bit set: its first hex digit is 8 or more.
TopBitSet(pd) == pd # <<>> /\ pd[1] >= 8

\* C39: every field decoded from hex digits is 0 or more; a temperature
\* payload of four digits with the top bit set decodes to 3276.8 or more, and
\* so do the acceleration and the velocity of a vibration payload to 327.68
\* or more; and a TEMPERATUREMIN alert is sent only under a configured
\* minimum above 0.
C39_DecodedNonNegative ==
    \A d \in devicelist :
        (pc[d] \in {"diff", "sleep"}) =>
          \A k \in 1..Len(sensorlist[d]) :
            LET sensor == sensorlist[d][k]
                pd == Get(sensor.sensorprocessdata)
            IN  Decoded(sensor) =>
                  /\ \A f \in DOMAIN Fields(sensor) : Fields(sensor)[f] >= 0
                  /\ (sensor.sensortype \in TemperatureTypes /\ Len(pd) = 4 /\ TopBitSet(pd))
                        => Fields(sensor).temperature >= 10 * 32768
                  /\ (sensor.sensortype \in VibrationTypes /\ TopBitSet(Slice(pd, 0, 4)))
                        => Fields(sensor).acceleration >= 32768
                  /\ (sensor.sensortype \in VibrationTypes /\ TopBitSet(Slice(pd, 4, 8)))
                        => Fields(sensor).velocity >= 32768
                  /\ (pc[d] = "sleep" /\ "TEMPERATUREMIN" \in AlertNames(events[d], k))
                        => /\ Configured(sensor, "temperaturemin")
                           /\ MinimumOf(sensor) > 0

\* With a minimum of 10.0 the payload "0032" on port 1 has got the
\* TEMPERATUREMIN alert, and the payload "FFF6" on port 2 is decoded to
\* 6552.6.
C39_TopBitReadAsLarge ==
    /\ pc[1] = "sleep"
    /\ MinimumOf(sensorlist[1][1]) = 1000
    /\ sensorlist[1][1].sensorprocessdata = Some(<<0, 0, 3, 2>>)
    /\ AlertNames(events[1], 1) = {"TEMPERATUREMIN"}
    /\ sensorlist[1][2].sensorprocessdata = Some(<<15, 15, 15, 6>>)
    /\ Decoded(sensorlist[1][2])
    /\ Fields(sensorlist[1][2]).temperature = 655260

====
